---- MODULE Spec2Model ----
(***************************************************************************)
(* Job submission and status protocol of the music-generation service:     *)
(* the request schema (api/main.py GenerationRequest), the POST /generate  *)
(* and GET /status handlers (api/main.py), the generate_track task         *)
(* (tasks/generation_tasks.py) and the queue and result backend as         *)
(* configured in core/celery_app.py.                                       *)
(*                                                                         *)
(* Numbers.  A JSON integer is kept as a pair (hi, lo) with value          *)
(* hi * 65536 + lo and 0 <= lo < 65536, so that 2^31 (one above the upper  *)
(* bound of seed) can be written.  A JSON float is kept in tenths          *)
(* (-0.5 is -5, 600.0 is 6000).                                            *)
(* Strings.  A path or URL is a sequence of tokens; "/" is the separator   *)
(* token, every other token is a run of characters without a separator.    *)
(***************************************************************************)
EXTENDS Integers, Sequences, FiniteSets, TLC

VARIABLES
    body,       \* the JSON body a client is composing: field -> value
    verdict,    \* result of GenerationRequest(**body): "new", "accepted", "rejected"
    dumped,     \* request.model_dump(exclude_none=True) of the accepted body
    issued,     \* task ids produced by uuid.uuid4()
    sent,       \* log of apply_async calls, in order
    queue,      \* messages waiting in the broker
    unacked,    \* messages a worker has reserved and not yet acknowledged
    backend,    \* result backend: task id -> [state, result]
    pc,         \* task id -> position of the worker executing it
    runs,       \* task id -> number of times the task body was started
    redelivered,\* task id -> number of broker redeliveries of its message
    returned,   \* task id -> status of the payload the task body last returned
    response,   \* the HTTP response to the latest POST /generate
    lastPoll,   \* the response to the latest GET /status/{task_id} of the polling client
    output_dir, \* settings.OUTPUT_DIR on disk: entry name -> what the entry is
    fileResponse,   \* the HTTP response to the latest GET /files/{filename}
    scratch,    \* the lora_train_* directories that exist under /tmp
    lora_models,    \* the adapter directories that exist under settings.LORA_DIR
    trainResponse,  \* the HTTP response to the latest POST /train/lora
    adapter,    \* task id -> the adapter the generation of that job ran with
    handler_lora,   \* the adapter loaded in the worker's shared _dit_handler
    initialized,    \* _initialized
    dit_handler,    \* _dit_handler: None or the handler object
    llm_handler,    \* _llm_handler: None or the handler object
    init_lock,      \* _init_lock: None or the caller holding it
    lpc,        \* caller -> its position in load_models
    loaded,     \* caller -> what its latest call of load_models gave
    made,       \* number of AceStepHandler objects constructed so far
    served      \* the handlers whose initialize_service reported success

vars == <<body, verdict, dumped, issued, sent, queue, unacked, backend, pc,
          runs, redelivered, returned, response, lastPoll, output_dir,
          fileResponse, scratch, lora_models, trainResponse, adapter,
          handler_lora, initialized, dit_handler, llm_handler, init_lock, lpc,
          loaded, made, served>>

reqVars == <<body, verdict, dumped>>
sysVars == <<issued, sent, queue, unacked, backend, pc, runs, redelivered,
             returned, response>>
fileVars == <<output_dir, fileResponse>>
trainVars == <<scratch, lora_models, trainResponse>>
loadVars == <<initialized, dit_handler, llm_handler, init_lock, lpc, loaded,
              made, served>>

-----------------------------------------------------------------------------
(* Bounds *)

\* number of task ids uuid4 can hand out
MaxJobs == 2
\* number of broker redeliveries in one behaviour, over all messages
MaxRedeliveries == 1
\* number of optional fields a client sets in one body
MaxSupplied == 2
\* longest file_path (in tokens) the result backend is made to hold
MaxPathLen == 4

TaskIds == {"t" \o ToString(i) : i \in 1..MaxJobs}

-----------------------------------------------------------------------------
(* JSON values *)

Unset == [kind |-> "unset"]
Null == [kind |-> "null"]
IntV(n) == [kind |-> "int", hi |-> n \div 65536, lo |-> n % 65536]
FloatV(t) == [kind |-> "float", tenths |-> t]
StrV(s) == [kind |-> "str", s |-> s]

\* n + 1 on the pair representation
SuccV(v) ==
    IF v.lo = 65535 THEN [kind |-> "int", hi |-> v.hi + 1, lo |-> 0]
    ELSE [kind |-> "int", hi |-> v.hi, lo |-> v.lo + 1]

\* a <= b, for two integers or two floats
LeV(a, b) ==
    IF a.kind = "int"
    THEN a.hi < b.hi \/ (a.hi = b.hi /\ a.lo <= b.lo)
    ELSE a.tenths <= b.tenths

-----------------------------------------------------------------------------
(* GenerationRequest: the declared fields *)

StrField(req) ==
    [type |-> "str", required |-> req, nullable |-> ~req, default |-> Null,
     ranged |-> FALSE, ge |-> Null, le |-> Null]
\* Optional[AudioFormat]: a string that is one of the values of the Enum
EnumField(default, values) ==
    [type |-> "str", required |-> FALSE, nullable |-> TRUE, default |-> default,
     ranged |-> FALSE, ge |-> Null, le |-> Null, values |-> values]
NumField(nullable, default, ge, le) ==
    [type |-> ge.kind, required |-> FALSE, nullable |-> nullable,
     default |-> default, ranged |-> TRUE, ge |-> ge, le |-> le]

GenerationRequest ==
    [prompt             |-> StrField(TRUE),
     duration           |-> NumField(FALSE, IntV(120), IntV(10), IntV(600)),
     bpm                |-> NumField(TRUE, Null, IntV(40), IntV(300)),
     seed               |-> NumField(TRUE, IntV(-1), IntV(-1), IntV(2147483647)),
     num_steps          |-> NumField(TRUE, IntV(8), IntV(1), IntV(100)),
     cfg_interval_start |-> NumField(TRUE, FloatV(0), FloatV(0), FloatV(10)),
     cfg_interval_end   |-> NumField(TRUE, FloatV(10), FloatV(0), FloatV(10)),
     batch_size         |-> NumField(TRUE, IntV(1), IntV(1), IntV(8)),
     repainting_start   |-> NumField(TRUE, Null, FloatV(0), FloatV(6000)),
     repainting_end     |-> NumField(TRUE, Null, FloatV(-10), FloatV(6000)),
     lm_top_k           |-> NumField(TRUE, Null, IntV(1), IntV(500)),
     lm_max_tokens      |-> NumField(TRUE, Null, IntV(64), IntV(4096)),
     lora_id            |-> StrField(FALSE),
     audio_format       |-> EnumField(StrV("wav"), {"wav", "mp3", "flac"})]

Fields == DOMAIN GenerationRequest

\* Field(ge=..., le=...): violates the strict upper bound (lt in place of le)
InRangeStrictUpper(f, v) ==
    /\ LeV(GenerationRequest[f].ge, v)
    /\ LeV(v, GenerationRequest[f].le)
    /\ v # GenerationRequest[f].le

\* Field(ge=..., le=...): a sentinel-only lower bound (ge, or else >= 0)
InRangeSentinel(f, v) ==
    /\ LeV(v, GenerationRequest[f].le)
    /\ \/ v = GenerationRequest[f].ge
       \/ LeV(IF v.kind = "int" THEN IntV(0) ELSE FloatV(0), v)

\* Field(ge=..., le=...)
InRange(f, v) ==
    /\ LeV(GenerationRequest[f].ge, v)
    /\ LeV(v, GenerationRequest[f].le)

\* validation of one field of the body
FieldOk(f, v) ==
    CASE v.kind = "unset" -> ~GenerationRequest[f].required
      [] v.kind = "null"  -> GenerationRequest[f].nullable
      [] OTHER -> /\ v.kind = GenerationRequest[f].type
                  /\ GenerationRequest[f].ranged => InRange(f, v)
                  /\ "values" \in DOMAIN GenerationRequest[f] =>
                        v.s \in GenerationRequest[f].values

\* validation that does not require prompt
ValidateNoRequired(b) ==
    \A f \in Fields : b[f].kind = "unset" \/ FieldOk(f, b[f])

\* GenerationRequest(**b) raises no ValidationError
Validate(b) == \A f \in Fields : FieldOk(f, b[f])

\* the model instance: a field the body does not set takes its default
Model(b) ==
    [f \in Fields |->
        IF b[f].kind = "unset" THEN GenerationRequest[f].default ELSE b[f]]

\* model_dump(exclude_unset=True): only the fields the client set
model_dump_exclude_unset(b) ==
    LET keys == {f \in Fields : b[f].kind \notin {"unset", "null"}}
    IN  [f \in keys |-> b[f]]

\* request.model_dump(exclude_none=True)
model_dump(b) ==
    LET m == Model(b)
        keys == {f \in Fields : m[f].kind # "null"}
    IN  [f \in keys |-> m[f]]

EmptyBody == [f \in Fields |-> Unset]
NoDump == [none |-> Null]

\* values a client may send for a field
Candidates(f) ==
    CASE f = "prompt"        -> {StrV("p"), Null}
      [] f = "duration"      -> {IntV(9), IntV(10), IntV(120), IntV(600), IntV(601), Null}
      [] f = "batch_size"    -> {IntV(0), IntV(1), IntV(8), IntV(9)}
      [] f = "bpm"           -> {IntV(39), IntV(40), IntV(300), IntV(301), Null}
      [] f = "num_steps"     -> {IntV(0), IntV(1), IntV(100), IntV(101)}
      [] f = "seed"          -> {IntV(-2), IntV(-1), IntV(0), IntV(2147483647),
                                 SuccV(IntV(2147483647)), Null}
      [] f = "lm_top_k"      -> {IntV(0), IntV(1), IntV(500), IntV(501)}
      [] f = "lm_max_tokens" -> {IntV(63), IntV(64), IntV(4096), IntV(4097)}
      [] f = "repainting_start" ->
            {FloatV(-10), FloatV(-1), FloatV(0), FloatV(6000), FloatV(6001)}
      [] f = "repainting_end" ->
            {FloatV(-11), FloatV(-10), FloatV(-5), FloatV(0), FloatV(6000),
             FloatV(6001)}
      [] f = "lora_id"       -> {StrV("style"), StrV("ghost")}
      [] f = "audio_format"  -> {StrV("wav"), StrV("mp3"), StrV("flac")}
      [] OTHER -> {FloatV(-1), FloatV(0), FloatV(5), FloatV(10), FloatV(11)}

Supplied(b) == {f \in Fields : b[f].kind # "unset"}

-----------------------------------------------------------------------------
(* Specification of the request schema alone *)

\* the client sets one more field of the body
ClientSet(f, v) ==
    /\ body[f].kind = "unset"
    /\ f # "prompt" => Cardinality(Supplied(body) \ {"prompt"}) < MaxSupplied
    /\ body' = [body EXCEPT ![f] = v]
    /\ verdict' = "new"
    /\ dumped' = NoDump
    /\ UNCHANGED <<sysVars, lastPoll, fileVars, trainVars, adapter,
                   handler_lora, loadVars>>

\* the client starts a new body
ClientReset ==
    /\ body # EmptyBody
    /\ body' = EmptyBody
    /\ verdict' = "new"
    /\ dumped' = NoDump
    /\ UNCHANGED <<sysVars, lastPoll, fileVars, trainVars, adapter,
                   handler_lora, loadVars>>

\* GenerationRequest(**body), then model_dump(exclude_none=True)
Construct ==
    /\ verdict = "new"
    /\ verdict' = IF Validate(body) THEN "accepted" ELSE "rejected"
    /\ dumped' = IF Validate(body) THEN model_dump(body) ELSE NoDump
    /\ UNCHANGED <<body, sysVars, lastPoll, fileVars, trainVars, adapter,
                   handler_lora, loadVars>>

-----------------------------------------------------------------------------
(* Optional values, paths, result payloads *)

None == [some |-> FALSE]
Some(x) == [some |-> TRUE, v |-> x]

Max(S) == CHOOSE x \in S : \A y \in S : y <= x

RECURSIVE Sum(_, _)
Sum(f, S) == IF S = {} THEN 0 ELSE LET x == CHOOSE y \in S : TRUE
                                   IN  f[x] + Sum(f, S \ {x})

\* os.path.basename that keeps the directory part instead of the last component
BasenameDir(p) ==
    LET seps == {i \in 1..Len(p) : p[i] = "/"}
    IN  IF seps = {} THEN p ELSE SubSeq(p, 1, Max(seps) - 1)

\* os.path.basename: what follows the last separator
Basename(p) ==
    LET seps == {i \in 1..Len(p) : p[i] = "/"}
    IN  IF seps = {} THEN p ELSE SubSeq(p, Max(seps) + 1, Len(p))

\* dict.get(key, default)
Get(d, key, default) == IF key \in DOMAIN d THEN d[key] ELSE default

NoResult == [type |-> "none"]
DictResult(d) == [type |-> "dict", value |-> d]
ExcResult(cls, msg) == [type |-> "exception", cls |-> cls, msg |-> msg]

\* str(exception): the message the exception was built with
Str(x) == x.msg

\* str.lower() on the names of the queue's task states
Lower(st) ==
    CASE st = "PENDING"  -> "pending"
      [] st = "STARTED"  -> "started"
      [] st = "PROGRESS" -> "progress"
      [] st = "RETRY"    -> "retry"
      [] st = "REVOKED"  -> "revoked"
      [] st = "SUCCESS"  -> "success"
      [] st = "FAILURE"  -> "failure"

StatusResponse(task_id, status, file_url, error) ==
    [task_id |-> task_id, status |-> status, file_url |-> file_url, error |-> error]

\* GET /status/{task_id} on the backend record r = AsyncResult(task_id)
get_status(task_id, r) ==
    CASE r.state = "PENDING" -> StatusResponse(task_id, "pending", None, None)
      [] r.state = "PROGRESS" -> StatusResponse(task_id, "processing", None, None)
      [] r.state = "SUCCESS" ->
            IF r.result.type = "dict"
            THEN LET task_result == r.result.value
                 IN  IF "status" \in DOMAIN task_result /\ task_result.status = "success"
                     THEN LET file_path == Get(task_result, "file_path", <<>>)
                              safe_name == Basename(file_path)
                          IN  StatusResponse(task_id, "success",
                                  Some(<<"/", "files", "/">> \o safe_name), None)
                     ELSE StatusResponse(task_id, "failed", None,
                              Some(Get(task_result, "error", "Unknown error")))
            ELSE StatusResponse(task_id, "success", None, None)
      [] r.state = "FAILURE" ->
            StatusResponse(task_id, "failed", None, Some(Str(r.result)))
      [] OTHER -> StatusResponse(task_id, Lower(r.state), None, None)

-----------------------------------------------------------------------------
(* Result backend (Redis, result_expires = 86400) *)

PendingRec == [state |-> "PENDING", result |-> NoResult]

\* store_result that overwrites whatever is stored
StoreResultOverwrite(b, id, state, result) ==
    [b EXCEPT ![id] = [state |-> state, result |-> result]]

\* store_result of the key-value backend: a stored SUCCESS is never overwritten
StoreResult(b, id, state, result) ==
    IF b[id].state = "SUCCESS" THEN b
    ELSE [b EXCEPT ![id] = [state |-> state, result |-> result]]

-----------------------------------------------------------------------------
(* POST /generate *)

\* apply_async whose message id is not the id the handler generated
apply_async_other_id(task_id, generation_params) ==
    [task_id |-> CHOOSE i \in TaskIds : i # task_id,
     name |-> "tasks.generate_track",
     args |-> [task_id |-> task_id, generation_params |-> generation_params]]

\* generate_track.apply_async(args=[task_id, generation_params], task_id=task_id)
apply_async(task_id, generation_params) ==
    [task_id |-> task_id,
     name |-> "tasks.generate_track",
     args |-> [task_id |-> task_id, generation_params |-> generation_params]]

\* str(uuid.uuid4()): a token that was not handed out before
uuid4(used) == CHOOSE i \in TaskIds \ used : TRUE

GenerationResponse(b, code, task_id, status) ==
    [body |-> b, code |-> code, task_id |-> task_id, status |-> status]

\* bodies clients post in the system specification
SampleBodies ==
    {EmptyBody,
     [EmptyBody EXCEPT !["prompt"] = StrV("p"), !["duration"] = IntV(601)],
     [EmptyBody EXCEPT !["prompt"] = StrV("p"), !["duration"] = IntV(600)]}

\* the request body fails validation: 422 before the handler body runs
generate_rejected(b) ==
    /\ ~Validate(b)
    /\ response' = Some(GenerationResponse(b, 422, None, None))
    /\ UNCHANGED <<issued, sent, queue, unacked, backend, pc, runs, redelivered,
                   returned, reqVars, lastPoll, fileVars, trainVars, adapter,
                   handler_lora, loadVars>>

\* the handler body: uuid4, model_dump, apply_async, response
generate(b) ==
    /\ Validate(b)
    /\ issued # TaskIds
    /\ LET task_id == uuid4(issued)
           m == apply_async(task_id, model_dump(b))
       IN  /\ issued' = issued \cup {task_id}
           /\ sent' = Append(sent, m)
           /\ queue' = queue \cup {m}
           /\ response' = Some(GenerationResponse(b, 200, Some(task_id), Some("pending")))
    /\ UNCHANGED <<unacked, backend, pc, runs, redelivered, returned, reqVars, lastPoll, fileVars, trainVars, adapter,
                   handler_lora, loadVars>>

\* GET /status/{task_id}
Poll(task_id) ==
    /\ lastPoll' = Some(get_status(task_id, backend[task_id]))
    /\ UNCHANGED <<sysVars, reqVars, fileVars, trainVars, adapter,
                   handler_lora, loadVars>>

-----------------------------------------------------------------------------
(* The worker: tasks.generate_track under task_track_started, task_acks_late *)

GenErrors == {"Model init failed", "Generation failed", "No audio was generated"}

\* a worker takes the message; task_track_started stores STARTED
Reserve(m) ==
    /\ m \in queue
    /\ pc[m.task_id] = "idle"
    /\ queue' = queue \ {m}
    /\ unacked' = unacked \cup {m}
    /\ pc' = [pc EXCEPT ![m.task_id] = "started"]
    /\ runs' = [runs EXCEPT ![m.task_id] = @ + 1]
    /\ backend' = StoreResult(backend, m.task_id, "STARTED", NoResult)
    /\ UNCHANGED <<issued, sent, redelivered, returned, response, reqVars, lastPoll, fileVars, trainVars, adapter,
                   handler_lora, loadVars>>

\* self.update_state(state="PROGRESS", meta=...) at the two places of the body
update_state(m, from, to, meta) ==
    /\ m \in unacked
    /\ pc[m.task_id] = from
    /\ pc' = [pc EXCEPT ![m.task_id] = to]
    /\ backend' = StoreResult(backend, m.task_id, "PROGRESS",
                              DictResult([status |-> meta]))
    /\ UNCHANGED <<issued, sent, queue, unacked, runs, redelivered, returned,
                   response, reqVars, lastPoll, fileVars, trainVars, adapter,
                   handler_lora, loadVars>>

\* lines 20-26 of generate_track: the adapter directory of the job's lora_id,
\* None if the job names none or the directory does not exist
lora_path_of(generation_params, models) ==
    LET lora_id == Get(generation_params, "lora_id", Null)
    IN  IF lora_id.kind = "str" /\ lora_id.s # "" /\ lora_id.s \in models
        THEN Some(lora_id.s)
        ELSE None

\* dit_handler.load_lora: whether loading the adapter directory raises
LoadLoraRaises(lora_path) == lora_path = "broken"

\* the result of a call: the exception it raised, if any, and its value
Raises(msg) == [raised |-> Some(msg), value |-> Null]
Gives(value) == [raised |-> None, value |-> value]

\* _apply_lora without its try/except
apply_lora_uncaught(lora_path, in_handler) ==
    IF LoadLoraRaises(lora_path) THEN Raises("Failed to load LoRA adapter")
    ELSE Gives(lora_path)

\* _apply_lora on a handler that holds the adapter in_handler: a failure to load
\* is logged; the value is the adapter the handler holds afterwards
apply_lora(lora_path, in_handler) ==
    IF LoadLoraRaises(lora_path) THEN Gives(in_handler)
    ELSE Gives(lora_path)

\* _build_generation_params: the seed of GenerationParams, and the random-seed
\* flag and the format of GenerationConfig
build_generation_params(params) ==
    LET seed == Get(params, "seed", IntV(-1))
        truthy == seed # Null /\ seed # IntV(0)
    IN  [seed |-> IF truthy /\ seed # IntV(-1) THEN seed ELSE IntV(-1),
         use_random_seed |-> (seed = IntV(-1) \/ seed = Null),
         audio_format |-> Get(params, "audio_format", StrV("wav")).s]

\* _save_result_audio that puts two dots before the extension
save_result_audio_dotted(task_id) == <<task_id, ".", ".", "wav">>

\* _save_result_audio: the name the first audio of the result is stored under
save_result_audio(task_id) == <<task_id, ".wav">>

\* the files generation jobs store in settings.OUTPUT_DIR
JobFiles == {save_result_audio(i) : i \in TaskIds}

\* generate_music(params, task_id, lora_path) when the library behaves as env:
\* "ok", or the error that load_models, ace_generate or _save_result_audio
\* meets; in_handler is the adapter the shared handler holds when it is called.
\* No step of it takes an adapter out of the handler.
generate_music(params, task_id, lora_path, env, in_handler) ==
    LET gen_config == build_generation_params(params)
        lora == IF lora_path.some THEN apply_lora(lora_path.v, in_handler)
                ELSE Gives(in_handler)
    IN  CASE env = "Model init failed" -> Raises(env)
          [] lora.raised.some -> lora
          [] env # "ok" -> Raises(env)
          [] OTHER -> Gives([output_filename |-> save_result_audio(task_id),
                                adapter |-> lora.value,
                                audio_format |-> gen_config.audio_format])

\* the adapter the shared handler holds after generate_track ran m
HandlerAfter(m, env, models) ==
    LET lora_path == lora_path_of(m.args.generation_params, models)
        lora == IF lora_path.some THEN apply_lora(lora_path.v, handler_lora)
                ELSE Gives(handler_lora)
    IN  IF env = "Model init failed" \/ lora.raised.some THEN handler_lora
        ELSE lora.value

\* the payload generate_track returns when the library behaves as env
generate_track_payload(m, env, models) ==
    LET task_id == m.args.task_id
        generation_params == m.args.generation_params
        r == generate_music(generation_params, task_id,
                            lora_path_of(generation_params, models), env,
                            handler_lora)
    IN  IF r.raised.some
        THEN [status |-> "failed", error |-> r.raised.v, task_id |-> task_id]
        ELSE [file_path |-> r.value.output_filename, status |-> "success",
              task_id |-> task_id]

\* the adapter the generation of m runs with when the library behaves as env
AdapterUsed(m, env, models) ==
    LET r == generate_music(m.args.generation_params, m.args.task_id,
                            lora_path_of(m.args.generation_params, models), env,
                            handler_lora)
    IN  IF r.raised.some THEN "none" ELSE r.value.adapter

\* the task body returns `payload`; the worker stores it as the SUCCESS result
Return(m, payload) ==
    /\ m \in unacked
    /\ pc[m.task_id] = "generating"
    /\ pc' = [pc EXCEPT ![m.task_id] = "returned"]
    /\ returned' = [returned EXCEPT ![m.task_id] = payload.status]
    /\ backend' = StoreResult(backend, m.task_id, "SUCCESS", DictResult(payload))
    /\ UNCHANGED <<issued, sent, queue, unacked, runs, redelivered, response,
                   reqVars, lastPoll, fileResponse, trainVars, loadVars>>

\* generate_music returned the output file name: the audio was stored under it
\* in settings.OUTPUT_DIR
generate_track_success(m) ==
    /\ Return(m, generate_track_payload(m, "ok", lora_models))
    /\ output_dir' = [output_dir EXCEPT ![save_result_audio(m.args.task_id)] = "file"]
    /\ adapter' = [adapter EXCEPT ![m.task_id] = AdapterUsed(m, "ok", lora_models)]
    /\ handler_lora' = HandlerAfter(m, "ok", lora_models)

\* except-branch that asks the queue to run the task again
generate_track_retry(m, e) ==
    /\ m \in unacked
    /\ pc[m.task_id] = "generating"
    /\ pc' = [pc EXCEPT ![m.task_id] = "idle"]
    /\ returned' = [returned EXCEPT ![m.task_id] = "failed"]
    /\ backend' = StoreResult(backend, m.task_id, "RETRY", ExcResult("Retry", e))
    /\ queue' = queue \cup {m}
    /\ sent' = Append(sent, m)
    /\ unacked' = unacked \ {m}
    /\ UNCHANGED <<issued, runs, redelivered, response, reqVars, lastPoll,
                   fileVars, trainVars, adapter, handler_lora, loadVars>>

\* except-branch that returns the failed payload without the message
generate_track_failed_silent(m, e) ==
    /\ Return(m, [status |-> "failed", error |-> "", task_id |-> m.args.task_id])
    /\ UNCHANGED output_dir
    /\ adapter' = [adapter EXCEPT ![m.task_id] = "none"]
    /\ handler_lora' = HandlerAfter(m, e, lora_models)

\* generate_music raised: the except-branch returns the failed payload
generate_track_failed(m, e) ==
    /\ Return(m, generate_track_payload(m, e, lora_models))
    /\ UNCHANGED output_dir
    /\ adapter' = [adapter EXCEPT ![m.task_id] = AdapterUsed(m, e, lora_models)]
    /\ handler_lora' = HandlerAfter(m, e, lora_models)

\* task_acks_late: the message is acknowledged after the task returned
Ack(m) ==
    /\ m \in unacked
    /\ pc[m.task_id] = "returned"
    /\ unacked' = unacked \ {m}
    /\ pc' = [pc EXCEPT ![m.task_id] = "idle"]
    /\ UNCHANGED <<issued, sent, queue, backend, runs, redelivered, returned,
                   response, reqVars, lastPoll, fileVars, trainVars, adapter,
                   handler_lora, loadVars>>

\* the worker process dies while the body runs: FAILURE WorkerLostError,
\* acknowledged; the process that replaces it starts with a fresh handler
WorkerLost(m) ==
    /\ m \in unacked
    /\ pc[m.task_id] \in {"started", "loading", "generating", "preprocessing",
                         "training"}
    /\ unacked' = unacked \ {m}
    /\ pc' = [pc EXCEPT ![m.task_id] = "idle"]
    /\ backend' = StoreResult(backend, m.task_id, "FAILURE",
                              ExcResult("WorkerLostError", "Worker exited prematurely"))
    /\ handler_lora' = "none"
    /\ UNCHANGED <<issued, sent, queue, runs, redelivered, returned, response,
                   reqVars, lastPoll, fileVars, trainVars, adapter, loadVars>>

\* the acknowledgement is lost after the task returned: the broker delivers again
Redeliver(m) ==
    /\ m \in unacked
    /\ pc[m.task_id] = "returned"
    /\ Sum(redelivered, TaskIds) < MaxRedeliveries
    /\ unacked' = unacked \ {m}
    /\ queue' = queue \cup {m}
    /\ pc' = [pc EXCEPT ![m.task_id] = "idle"]
    /\ redelivered' = [redelivered EXCEPT ![m.task_id] = @ + 1]
    /\ UNCHANGED <<issued, sent, backend, runs, returned, response, reqVars, lastPoll, fileVars, trainVars, adapter,
                   handler_lora, loadVars>>

\* result_expires: a day after the task finished its stored result is removed;
\* the state reads PENDING again
Expire(task_id) ==
    /\ backend[task_id].state \in {"SUCCESS", "FAILURE"}
    /\ pc[task_id] = "idle"
    /\ backend' = [backend EXCEPT ![task_id] = PendingRec]
    /\ UNCHANGED <<issued, sent, queue, unacked, pc, runs, redelivered, returned,
                   response, reqVars, lastPoll, fileVars, trainVars, adapter,
                   handler_lora, loadVars>>

-----------------------------------------------------------------------------
(* Every state and payload the result backend can report for one task id *)

ProbeId == uuid4({})

PathTokens == {"/", "x", "abc.wav"}
Paths == UNION {[1..n -> PathTokens] : n \in 0..MaxPathLen}

Payloads ==
    {[status |-> "success", file_path |-> p] : p \in Paths}
    \cup {[status |-> "success", lora_id |-> "style"]}
    \cup {[status |-> "failed", error |-> e] : e \in GenErrors}
    \cup {[status |-> "failed"], [task_id |-> ProbeId]}

BackendRecords ==
    {[state |-> st, result |-> NoResult] : st \in {"PENDING", "STARTED", "SUCCESS"}}
    \cup {[state |-> "PROGRESS", result |-> DictResult([status |-> m])] :
            m \in {"loading_model", "generating"}}
    \cup {[state |-> "RETRY", result |-> ExcResult("Retry", "Retry in 180s")],
          [state |-> "REVOKED", result |-> ExcResult("TaskRevokedError", "revoked")]}
    \cup {[state |-> "SUCCESS", result |-> DictResult(d)] : d \in Payloads}
    \cup {[state |-> "FAILURE", result |-> ExcResult("Exception", msg)] :
            msg \in {"GPU out of memory", ""}}

\* the backend comes to hold record r for the probed id; the client has not polled yet
BackendReports(r) ==
    /\ backend[ProbeId] # r
    /\ backend' = [backend EXCEPT ![ProbeId] = r]
    /\ lastPoll' = None
    /\ UNCHANGED <<issued, sent, queue, unacked, pc, runs, redelivered, returned,
                   response, reqVars, fileVars, trainVars, adapter,
                   handler_lora, loadVars>>

-----------------------------------------------------------------------------
(* GET /files/{filename}.  A filename and a path are sequences of characters. *)

\* longest filename (in characters) a client asks for
MaxNameLen == 3

FileChars == {"/", ".", "a"}
Filenames == UNION {[1..n -> FileChars] : n \in 1..MaxNameLen}

\* os.path.realpath(settings.OUTPUT_DIR)
OutputRoot == <<"/", "o">>
\* a file outside the output root, and a file in the directory /oa next to it
OutsideFile == <<"/", "e">>
SiblingFile == <<"/", "o", "a", "/", "a">>

\* names an entry of the output directory can have, and what an entry can be:
\* a regular file, a directory, a symbolic link to OutsideFile or to SiblingFile
EntryNames == {<<"a">>, <<".", "a">>, <<"a", ".", ".">>}
EntryKinds == {"absent", "file", "dir", "outside", "sibling"}

\* ".." in filename
HasDotDot(filename) ==
    \E i \in 1..(Len(filename) - 1) : filename[i] = "." /\ filename[i + 1] = "."

\* str.startswith
StartsWith(p, prefix) ==
    /\ Len(prefix) <= Len(p)
    /\ \A i \in 1..Len(prefix) : p[i] = prefix[i]

\* os.path.realpath(os.path.join(root, name)) for a name without separator
realpath(dir, root, name) ==
    CASE name = <<>> \/ name = <<".">> -> root
      [] name = <<".", ".">> -> <<"/">>
      [] name \in DOMAIN dir /\ dir[name] = "outside" -> OutsideFile
      [] name \in DOMAIN dir /\ dir[name] = "sibling" -> SiblingFile
      [] OTHER -> root \o <<"/">> \o name

\* os.path.isfile on a canonical path
isfile(dir, path) ==
    \/ path \in {OutsideFile, SiblingFile}
    \/ \E n \in DOMAIN dir : dir[n] = "file" /\ path = OutputRoot \o <<"/">> \o n

\* the response of get_file; accessed: whether the filesystem was consulted
FileResponse(filename, code, accessed, path) ==
    [filename |-> filename, code |-> code, accessed |-> accessed, path |-> path]

\* get_file without the test for ".."
get_file_no_dotdot(filename, dir) ==
    LET safe_filename == Basename(filename)
    IN  IF safe_filename # filename
        THEN FileResponse(filename, 403, FALSE, None)
        ELSE LET output_real == OutputRoot
                 file_path == realpath(dir, output_real, safe_filename)
             IN  IF ~StartsWith(file_path, output_real \o <<"/">>)
                 THEN FileResponse(filename, 403, TRUE, None)
                 ELSE IF ~isfile(dir, file_path)
                 THEN FileResponse(filename, 404, TRUE, None)
                 ELSE FileResponse(filename, 200, TRUE, Some(file_path))

\* get_file that compares with the output root without the trailing separator
get_file_no_sep(filename, dir) ==
    LET safe_filename == Basename(filename)
    IN  IF safe_filename # filename \/ HasDotDot(filename)
        THEN FileResponse(filename, 403, FALSE, None)
        ELSE LET output_real == OutputRoot
                 file_path == realpath(dir, output_real, safe_filename)
             IN  IF ~StartsWith(file_path, output_real)
                 THEN FileResponse(filename, 403, TRUE, None)
                 ELSE IF ~isfile(dir, file_path)
                 THEN FileResponse(filename, 404, TRUE, None)
                 ELSE FileResponse(filename, 200, TRUE, Some(file_path))

\* get_file(filename) on the output directory dir
get_file(filename, dir) ==
    LET safe_filename == Basename(filename)
    IN  IF safe_filename # filename \/ HasDotDot(filename)
        THEN FileResponse(filename, 403, FALSE, None)
        ELSE LET output_real == OutputRoot
                 file_path == realpath(dir, output_real, safe_filename)
             IN  IF ~StartsWith(file_path, output_real \o <<"/">>)
                 THEN FileResponse(filename, 403, TRUE, None)
                 ELSE IF ~isfile(dir, file_path)
                 THEN FileResponse(filename, 404, TRUE, None)
                 ELSE FileResponse(filename, 200, TRUE, Some(file_path))

\* GET /files/{filename}
GetFile(filename) ==
    /\ fileResponse' = Some(get_file(filename, output_dir))
    /\ UNCHANGED <<output_dir, sysVars, reqVars, lastPoll, trainVars, adapter,
                   handler_lora, loadVars>>

\* an entry of the output directory is written, replaced or removed; the
\* client has not asked again yet
OutputDirChanges(name, kind) ==
    /\ output_dir[name] # kind
    /\ output_dir' = [output_dir EXCEPT ![name] = kind]
    /\ fileResponse' = None
    /\ UNCHANGED <<sysVars, reqVars, lastPoll, trainVars, adapter,
                   handler_lora, loadVars>>

-----------------------------------------------------------------------------
(* POST /train/lora: the uploaded archive and the scratch directory.         *)
(* A directory is the sequence of its component names from the root; a file  *)
(* is a directory, a stem and an extension (the part os.path.splitext        *)
(* splits off, "" if there is none).                                         *)

\* most audio members an uploaded archive holds
MaxFiles == 11
\* number of training jobs accepted in one behaviour
MaxTrainings == 1

AUDIO_EXTENSIONS == {".mp3", ".wav", ".flac", ".ogg", ".opus"}
MIN_LORA_FILES == 5
MAX_LORA_FILES == 10

\* str.lower() on the extensions that occur
ExtLower(ext) ==
    CASE ext = ".WAV" -> ".wav"
      [] ext = ".Ogg" -> ".ogg"
      [] ext = ".ZIP" -> ".zip"
      [] ext = ".Mp3" -> ".mp3"
      [] OTHER -> ext

File(dirs, stem, ext) == [dirs |-> dirs, stem |-> stem, ext |-> ext]

\* a member name of an archive: absolute or relative
Member(abs, dirs, stem, ext) == [abs |-> abs, dirs |-> dirs, stem |-> stem, ext |-> ext]

\* path normalisation of os.path.realpath: "." is dropped, ".." leaves the
\* directory reached so far (the root is its own parent)
RECURSIVE Normalize(_, _)
Normalize(dirs, acc) ==
    IF dirs = <<>> THEN acc
    ELSE LET d == Head(dirs)
         IN  CASE d = "." -> Normalize(Tail(dirs), acc)
               [] d = ".." -> Normalize(Tail(dirs),
                                 IF acc = <<>> THEN acc ELSE SubSeq(acc, 1, Len(acc) - 1))
               [] OTHER -> Normalize(Tail(dirs), Append(acc, d))

\* os.path.realpath(os.path.join(tmp_dir, member)): the directory of the result
MemberDir(tmp_dir, member) ==
    IF member.abs THEN Normalize(member.dirs, <<>>)
    ELSE Normalize(tmp_dir \o member.dirs, <<>>)

\* member_path.startswith(os.path.realpath(tmp_dir) + os.sep)
InsideDir(dirs, tmp_dir) ==
    /\ Len(dirs) >= Len(tmp_dir)
    /\ SubSeq(dirs, 1, Len(tmp_dir)) = tmp_dir

IsDotName(d) == d \in {".", ".."}
IsPlainName(d) == ~IsDotName(d)

\* where ZipFile.extractall writes a member: below tmp_dir, "." and ".."
\* components and a leading separator removed
ExtractPath(tmp_dir, member) ==
    File(tmp_dir \o SelectSeq(member.dirs, IsPlainName), member.stem, member.ext)

\* os.path.splitext(file)[1].lower() in AUDIO_EXTENSIONS
IsAudio(file) == ExtLower(file.ext) \in AUDIO_EXTENSIONS

\* os.path.splitext(file)[1] in AUDIO_EXTENSIONS: the comparison without lower()
IsAudioCaseSensitive(file) == file.ext \in AUDIO_EXTENSIONS

ExtractResult(raised, detail, extracted, audio_files) ==
    [raised |-> raised, detail |-> detail, extracted |-> extracted,
     audio_files |-> audio_files]

\* the members in front of the first one that leaves tmp_dir
SafePrefix(tmp_dir, namelist) ==
    LET bad == {i \in 1..Len(namelist) : ~InsideDir(MemberDir(tmp_dir, namelist[i]), tmp_dir)}
    IN  IF bad = {} THEN namelist
        ELSE SubSeq(namelist, 1, (CHOOSE i \in bad : \A j \in bad : i <= j) - 1)

\* _extract_audio_from_zip that extracts each member right after checking it
extract_audio_interleaved(archive, tmp_dir) ==
    LET paths == [i \in 1..Len(archive.namelist) |->
                     ExtractPath(tmp_dir, archive.namelist[i])]
        done == SafePrefix(tmp_dir, archive.namelist)
    IN  CASE archive.fault = "OSError" ->
                ExtractResult("Exception", "disk full", <<>>, <<>>)
          [] archive.fault = "BadZipFile" ->
                ExtractResult("BadZipFile", "File is not a zip file", <<>>, <<>>)
          [] \E i \in 1..Len(archive.namelist) :
                ~InsideDir(MemberDir(tmp_dir, archive.namelist[i]), tmp_dir) ->
                ExtractResult("HTTPException", "Invalid archive: path traversal detected",
                              SubSeq(paths, 1, Len(done)), <<>>)
          [] OTHER -> ExtractResult("none", "", paths, SelectSeq(paths, IsAudio))

\* _extract_audio_from_zip that compares extensions as they are spelled
extract_audio_case_sensitive(archive, tmp_dir) ==
    LET paths == [i \in 1..Len(archive.namelist) |->
                     ExtractPath(tmp_dir, archive.namelist[i])]
    IN  CASE archive.fault = "OSError" ->
                ExtractResult("Exception", "disk full", <<>>, <<>>)
          [] archive.fault = "BadZipFile" ->
                ExtractResult("BadZipFile", "File is not a zip file", <<>>, <<>>)
          [] \E i \in 1..Len(archive.namelist) :
                ~InsideDir(MemberDir(tmp_dir, archive.namelist[i]), tmp_dir) ->
                ExtractResult("HTTPException", "Invalid archive: path traversal detected",
                              <<>>, <<>>)
          [] OTHER -> ExtractResult("none", "", paths,
                                    SelectSeq(paths, IsAudioCaseSensitive))

\* _extract_audio_from_zip(archive_content, tmp_dir): the archive is written to
\* tmp_dir/audio.zip and opened, every member is checked, then all members are
\* extracted, audio.zip is removed and the tree is walked for audio files.
\* raised: the exception that ends the call; extracted: the files extractall
\* wrote; audio_files: the list returned
extract_audio_from_zip(archive, tmp_dir) ==
    LET paths == [i \in 1..Len(archive.namelist) |->
                     ExtractPath(tmp_dir, archive.namelist[i])]
    IN  CASE archive.fault = "OSError" ->
                ExtractResult("Exception", "disk full", <<>>, <<>>)
          [] archive.fault = "BadZipFile" ->
                ExtractResult("BadZipFile", "File is not a zip file", <<>>, <<>>)
          [] \E i \in 1..Len(archive.namelist) :
                ~InsideDir(MemberDir(tmp_dir, archive.namelist[i]), tmp_dir) ->
                ExtractResult("HTTPException", "Invalid archive: path traversal detected",
                              <<>>, <<>>)
          [] OTHER -> ExtractResult("none", "", paths, SelectSeq(paths, IsAudio))

\* the archives clients upload: flat archives of 0..MaxFiles audio files, and
\* around the two limits nested layouts, other members, other upload names,
\* broken uploads and members that point out of the scratch directory
AudioExtList == <<".mp3", ".WAV", ".flac", ".Ogg", ".opus">>
Layouts == {"flat", "nested", "deep"}
LayoutDirs(layout) ==
    CASE layout = "flat" -> <<>>
      [] layout = "nested" -> <<"d">>
      [] layout = "deep" -> <<"d", "e">>

AudioMembers(n, layout) ==
    [i \in 1..n |-> Member(FALSE, LayoutDirs(layout), "f" \o ToString(i),
                           AudioExtList[(i % Len(AudioExtList)) + 1])]

OtherMembers ==
    <<Member(FALSE, <<>>, "readme", ".txt"), Member(FALSE, <<>>, "song", ".m4a"),
      Member(FALSE, <<"d">>, "track", ".aac"), Member(FALSE, <<>>, "file", ".wma"),
      Member(FALSE, <<>>, "f1.wav", ".bak"), Member(FALSE, <<>>, "wav", "")>>

EvilMembers ==
    {Member(FALSE, <<"..">>, "x", ".wav"),
     Member(FALSE, <<"d", "..", "..">>, "x", ".wav"),
     Member(TRUE, <<"etc">>, "x", ".wav")}

\* a member whose ".." stays inside the scratch directory
BenignMember == Member(FALSE, <<"d", "..">>, "g", ".wav")

UploadName(stem, ext) == [stem |-> stem, ext |-> ext]
ZipName == UploadName("s", ".zip")
UploadNames ==
    {ZipName, UploadName("S", ".ZIP"), UploadName("audio.tar", ".gz"),
     UploadName("", ""), UploadName("s.zip", ".bak")}

Upload(filename, fault, namelist) ==
    [style_name |-> "ghost", filename |-> filename, fault |-> fault,
     namelist |-> namelist]

TrainUploads ==
    {Upload(ZipName, "none", AudioMembers(n, "flat")) : n \in 0..MaxFiles}
    \cup {Upload(ZipName, "none", AudioMembers(MIN_LORA_FILES, l) \o o) :
            l \in Layouts, o \in {<<>>, OtherMembers}}
    \cup {Upload(ZipName, "none", AudioMembers(n, "nested") \o OtherMembers) :
            n \in {MIN_LORA_FILES - 1, MAX_LORA_FILES, MAX_LORA_FILES + 1}}
    \cup {Upload(f, "none", AudioMembers(MIN_LORA_FILES, "flat")) : f \in UploadNames}
    \cup {Upload(ZipName, f, AudioMembers(MIN_LORA_FILES, "flat")) :
            f \in {"BadZipFile", "OSError"}}
    \cup {Upload(ZipName, "none", Append(AudioMembers(MIN_LORA_FILES, "flat"), e)) :
            e \in EvilMembers}
    \cup {Upload(ZipName, "none", <<e>> \o AudioMembers(MIN_LORA_FILES, "flat")) :
            e \in EvilMembers}
    \cup {Upload(ZipName, "none",
                 Append(AudioMembers(MIN_LORA_FILES - 1, "flat"), BenignMember))}

\* names tempfile.mkdtemp(prefix="lora_train_") can return
ScratchNames == {"lora_train_" \o i : i \in TaskIds \cup {"t0"}}

\* tempfile.mkdtemp(prefix="lora_train_"): a directory under /tmp that did not exist
mkdtemp(existing) == <<"tmp", CHOOSE n \in ScratchNames : <<"tmp", n>> \notin existing>>

Detail(text) == [text |-> text]
DetailCount(text, limit, got) == [text |-> text, limit |-> limit, got |-> got]

\* what train_lora does with an upload: the response, whether a job is
\* enqueued, whether tmp_dir was created and whether it was removed again
TrainOutcome(code, detail, enqueue, created, removed, extracted, audio_files) ==
    [code |-> code, detail |-> detail, enqueue |-> enqueue, created |-> created,
     removed |-> removed, extracted |-> extracted, audio_files |-> audio_files]

\* train_lora whose lower limit is exclusive
train_lora_outcome_exclusive(upload, tmp_dir) ==
    IF ExtLower(upload.filename.ext) # ".zip"
    THEN TrainOutcome(400, Detail("Please upload a ZIP archive"), FALSE, FALSE,
                      FALSE, <<>>, <<>>)
    ELSE LET r == extract_audio_from_zip(upload, tmp_dir)
             audio_files == r.audio_files
         IN  CASE r.raised = "BadZipFile" ->
                    TrainOutcome(400, Detail("Invalid ZIP archive"), FALSE, TRUE,
                                 TRUE, r.extracted, <<>>)
               [] r.raised = "HTTPException" ->
                    TrainOutcome(400, Detail(r.detail), FALSE, TRUE, TRUE,
                                 r.extracted, <<>>)
               [] r.raised = "Exception" ->
                    TrainOutcome(500, Detail("Internal server error"), FALSE, TRUE,
                                 TRUE, r.extracted, <<>>)
               [] Len(audio_files) <= MIN_LORA_FILES ->
                    TrainOutcome(400, DetailCount("Need at least", MIN_LORA_FILES,
                                                  Len(audio_files)),
                                 FALSE, TRUE, TRUE, r.extracted, audio_files)
               [] Len(audio_files) > MAX_LORA_FILES ->
                    TrainOutcome(400, DetailCount("Maximum", MAX_LORA_FILES,
                                                  Len(audio_files)),
                                 FALSE, TRUE, TRUE, r.extracted, audio_files)
               [] OTHER ->
                    TrainOutcome(200, Detail(""), TRUE, TRUE, FALSE, r.extracted,
                                 audio_files)

\* train_lora that enqueues the job before it counts the files
train_lora_outcome_eager(upload, tmp_dir) ==
    IF ExtLower(upload.filename.ext) # ".zip"
    THEN TrainOutcome(400, Detail("Please upload a ZIP archive"), FALSE, FALSE,
                      FALSE, <<>>, <<>>)
    ELSE LET r == extract_audio_from_zip(upload, tmp_dir)
             audio_files == r.audio_files
         IN  CASE r.raised = "BadZipFile" ->
                    TrainOutcome(400, Detail("Invalid ZIP archive"), FALSE, TRUE,
                                 TRUE, r.extracted, <<>>)
               [] r.raised = "HTTPException" ->
                    TrainOutcome(400, Detail(r.detail), FALSE, TRUE, TRUE,
                                 r.extracted, <<>>)
               [] r.raised = "Exception" ->
                    TrainOutcome(500, Detail("Internal server error"), FALSE, TRUE,
                                 TRUE, r.extracted, <<>>)
               [] Len(audio_files) < MIN_LORA_FILES ->
                    TrainOutcome(400, DetailCount("Need at least", MIN_LORA_FILES,
                                                  Len(audio_files)),
                                 TRUE, TRUE, TRUE, r.extracted, audio_files)
               [] Len(audio_files) > MAX_LORA_FILES ->
                    TrainOutcome(400, DetailCount("Maximum", MAX_LORA_FILES,
                                                  Len(audio_files)),
                                 TRUE, TRUE, TRUE, r.extracted, audio_files)
               [] OTHER ->
                    TrainOutcome(200, Detail(""), TRUE, TRUE, FALSE, r.extracted,
                                 audio_files)

\* the body of train_lora on an upload, with tmp_dir the directory mkdtemp returns
train_lora_outcome(upload, tmp_dir) ==
    IF ExtLower(upload.filename.ext) # ".zip"
    THEN TrainOutcome(400, Detail("Please upload a ZIP archive"), FALSE, FALSE,
                      FALSE, <<>>, <<>>)
    ELSE LET r == extract_audio_from_zip(upload, tmp_dir)
             audio_files == r.audio_files
         IN  CASE r.raised = "BadZipFile" ->
                    TrainOutcome(400, Detail("Invalid ZIP archive"), FALSE, TRUE,
                                 TRUE, r.extracted, <<>>)
               [] r.raised = "HTTPException" ->
                    TrainOutcome(400, Detail(r.detail), FALSE, TRUE, TRUE,
                                 r.extracted, <<>>)
               [] r.raised = "Exception" ->
                    TrainOutcome(500, Detail("Internal server error"), FALSE, TRUE,
                                 TRUE, r.extracted, <<>>)
               [] Len(audio_files) < MIN_LORA_FILES ->
                    TrainOutcome(400, DetailCount("Need at least", MIN_LORA_FILES,
                                                  Len(audio_files)),
                                 FALSE, TRUE, TRUE, r.extracted, audio_files)
               [] Len(audio_files) > MAX_LORA_FILES ->
                    TrainOutcome(400, DetailCount("Maximum", MAX_LORA_FILES,
                                                  Len(audio_files)),
                                 FALSE, TRUE, TRUE, r.extracted, audio_files)
               [] OTHER ->
                    TrainOutcome(200, Detail(""), TRUE, TRUE, FALSE, r.extracted,
                                 audio_files)

\* train_lora_task.apply_async(args=[style_name, audio_files], task_id=task_id)
train_apply_async(task_id, style_name, audio_files) ==
    [task_id |-> task_id,
     name |-> "tasks.train_lora",
     args |-> [style_name |-> style_name, audio_files_paths |-> audio_files]]

LoraTrainResponse(upload, tmp_dir, o, task_id, status) ==
    [upload |-> upload, tmp_dir |-> tmp_dir, code |-> o.code, detail |-> o.detail,
     extracted |-> o.extracted, collected |-> o.audio_files,
     task_id |-> task_id, status |-> status,
     style_name |-> IF o.enqueue THEN Some(upload.style_name) ELSE None]

\* POST /train/lora, for clients that have at most `limit` training jobs accepted
train_lora_within(upload, limit) ==
    \E tmp_dir \in {mkdtemp(scratch)} :
    \E o \in {train_lora_outcome(upload, tmp_dir)} :
        /\ o.enqueue =>
              /\ issued # TaskIds
              /\ Cardinality({k \in 1..Len(sent) : sent[k].name = "tasks.train_lora"})
                    < limit
        /\ scratch' = IF o.created /\ ~o.removed THEN scratch \cup {tmp_dir}
                      ELSE scratch
        /\ IF o.enqueue
           THEN \E task_id \in {uuid4(issued)} :
                \E m \in {train_apply_async(task_id, upload.style_name, o.audio_files)} :
                    /\ issued' = issued \cup {task_id}
                    /\ sent' = Append(sent, m)
                    /\ queue' = queue \cup {m}
                    /\ trainResponse' =
                          Some(LoraTrainResponse(upload, tmp_dir, o, Some(task_id),
                                                 Some("pending")))
           ELSE /\ UNCHANGED <<issued, sent, queue>>
                /\ trainResponse' =
                      Some(LoraTrainResponse(upload, tmp_dir, o, None, None))
        /\ UNCHANGED <<unacked, backend, pc, runs, redelivered, returned, response,
                       reqVars, lastPoll, fileVars, lora_models, adapter,
                       handler_lora, loadVars>>

\* POST /train/lora
train_lora(upload) == train_lora_within(upload, MaxTrainings)

-----------------------------------------------------------------------------
(* The worker: tasks.train_lora *)

\* os.path.basename(d).startswith("lora_train_")
IsLoraTrainName(name) == name \in ScratchNames

\* d.startswith("/tmp") and os.path.basename(d).startswith("lora_train_")
IsUploadTmpDir(d) ==
    /\ Len(d) >= 1
    /\ d[1] = "tmp"
    /\ IsLoraTrainName(d[Len(d)])

\* os.path.dirname of a directory
dirname(d) == IF d = <<>> THEN d ELSE SubSeq(d, 1, Len(d) - 1)

\* _find_lora_train_tmp_dir: the parent or grandparent of the first path that
\* has one under /tmp named lora_train_*
find_lora_train_tmp_dir(audio_paths) ==
    LET matches(p) == IsUploadTmpDir(p.dirs) \/ IsUploadTmpDir(dirname(p.dirs))
        hits == {i \in 1..Len(audio_paths) : matches(audio_paths[i])}
    IN  IF hits = {} THEN None
        ELSE LET parent == audio_paths[CHOOSE i \in hits : \A j \in hits : i <= j].dirs
             IN  IF IsUploadTmpDir(parent) THEN Some(parent)
                 ELSE Some(dirname(parent))

IsTrain(m) == m.name = "tasks.train_lora"

\* load_models(), os.makedirs(lora_output_dir), then
\* update_state(state="PROGRESS", meta={"status": "preprocessing_audio"})
train_lora_task_preprocess(m) ==
    /\ m \in unacked
    /\ IsTrain(m)
    /\ pc[m.task_id] = "loading"
    /\ pc' = [pc EXCEPT ![m.task_id] = "preprocessing"]
    /\ lora_models' = lora_models \cup {m.args.style_name}
    /\ backend' = StoreResult(backend, m.task_id, "PROGRESS",
                              DictResult([status |-> "preprocessing_audio"]))
    /\ UNCHANGED <<issued, sent, queue, unacked, runs, redelivered, returned,
                   response, reqVars, lastPoll, fileVars, scratch, trainResponse,
                   adapter, handler_lora, loadVars>>

\* scanning and preprocessing gave samples:
\* update_state(state="PROGRESS", meta={"status": "training"})
train_lora_task_train(m) ==
    /\ m \in unacked
    /\ IsTrain(m)
    /\ pc[m.task_id] = "preprocessing"
    /\ pc' = [pc EXCEPT ![m.task_id] = "training"]
    /\ backend' = StoreResult(backend, m.task_id, "PROGRESS",
                              DictResult([status |-> "training"]))
    /\ UNCHANGED <<issued, sent, queue, unacked, runs, redelivered, returned,
                   response, reqVars, lastPoll, fileVars, trainVars, adapter,
                   handler_lora, loadVars>>

\* the failed payloads train_lora_task returns from each stage of its body
TrainErrors(stage) ==
    CASE stage = "loading" ->
            {"Training modules not available"}
      [] stage = "preprocessing" ->
            {"No valid audio files found after scanning"}
      [] stage = "training" -> {"CUDA out of memory"}

TrainPayloads(m, stage) ==
    {[status |-> "failed", error |-> e] : e \in TrainErrors(stage)}
    \cup (IF stage = "training"
          THEN {[status |-> "success", lora_id |-> m.args.style_name]}
          ELSE {})

\* train_lora_task returns `payload`: the finally-block removes the upload
\* directory _find_lora_train_tmp_dir found, the worker stores the result
train_lora_task_return(m, payload) ==
    /\ m \in unacked
    /\ IsTrain(m)
    /\ pc[m.task_id] \in {"loading", "preprocessing", "training"}
    /\ payload \in TrainPayloads(m, pc[m.task_id])
    /\ LET upload_tmp_dir == find_lora_train_tmp_dir(m.args.audio_files_paths)
       IN  scratch' = IF upload_tmp_dir.some THEN scratch \ {upload_tmp_dir.v}
                      ELSE scratch
    /\ pc' = [pc EXCEPT ![m.task_id] = "returned"]
    /\ returned' = [returned EXCEPT ![m.task_id] = payload.status]
    /\ backend' = StoreResult(backend, m.task_id, "SUCCESS", DictResult(payload))
    /\ UNCHANGED <<issued, sent, queue, unacked, runs, redelivered, response,
                   reqVars, lastPoll, fileVars, lora_models, trainResponse, adapter,
                   handler_lora, loadVars>>

-----------------------------------------------------------------------------
(* load_models in one worker process, called from several threads *)

\* number of threads of the process that call load_models
MaxCallers == 2
\* number of AceStepHandler objects constructed in one behaviour
MaxLoads == 3

Callers == 1..MaxCallers

NotCalled == [kind |-> "none"]
LoadRaised(msg) == [kind |-> "raised", msg |-> msg]
LoadPair(dit, llm) == [kind |-> "pair", dit |-> dit, llm |-> llm]

\* a caller enters load_models
load_models_call(t) ==
    /\ lpc[t] = "idle"
    /\ lpc' = [lpc EXCEPT ![t] = "check"]
    /\ UNCHANGED <<initialized, dit_handler, llm_handler, init_lock, loaded,
                   made, served, sysVars, reqVars, lastPoll, fileVars, trainVars,
                   adapter, handler_lora>>

\* `if _initialized:` outside the lock
load_models_check(t) ==
    /\ lpc[t] = "check"
    /\ lpc' = [lpc EXCEPT ![t] = IF initialized THEN "return" ELSE "acquire"]
    /\ UNCHANGED <<initialized, dit_handler, llm_handler, init_lock, loaded,
                   made, served, sysVars, reqVars, lastPoll, fileVars, trainVars,
                   adapter, handler_lora>>

\* `return _dit_handler, _llm_handler` outside the lock
load_models_return(t) ==
    /\ lpc[t] = "return"
    /\ loaded' = [loaded EXCEPT ![t] = LoadPair(dit_handler, llm_handler)]
    /\ lpc' = [lpc EXCEPT ![t] = "idle"]
    /\ UNCHANGED <<initialized, dit_handler, llm_handler, init_lock, made,
                   served, sysVars, reqVars, lastPoll, fileVars, trainVars,
                   adapter, handler_lora>>

\* `with _init_lock:` the caller waits until the lock is free and takes it
load_models_acquire(t) ==
    /\ lpc[t] = "acquire"
    /\ init_lock = None
    /\ init_lock' = Some(t)
    /\ lpc' = [lpc EXCEPT ![t] = "locked"]
    /\ UNCHANGED <<initialized, dit_handler, llm_handler, loaded, made, served,
                   sysVars, reqVars, lastPoll, fileVars, trainVars, adapter,
                   handler_lora>>

\* load_models that does not look at _initialized again under the lock
load_models_locked_unchecked(t) ==
    /\ lpc[t] = "locked"
    /\ lpc' = [lpc EXCEPT ![t] = "construct"]
    /\ UNCHANGED <<initialized, dit_handler, llm_handler, init_lock, loaded,
                   made, served, sysVars, reqVars, lastPoll, fileVars, trainVars,
                   adapter, handler_lora>>

\* `if _initialized: return _dit_handler, _llm_handler` under the lock
load_models_locked(t) ==
    /\ lpc[t] = "locked"
    /\ IF initialized
       THEN /\ loaded' = [loaded EXCEPT ![t] = LoadPair(dit_handler, llm_handler)]
            /\ init_lock' = None
            /\ lpc' = [lpc EXCEPT ![t] = "idle"]
       ELSE /\ lpc' = [lpc EXCEPT ![t] = "construct"]
            /\ UNCHANGED <<loaded, init_lock>>
    /\ UNCHANGED <<initialized, dit_handler, llm_handler, made, served, sysVars,
                   reqVars, lastPoll, fileVars, trainVars, adapter, handler_lora>>

\* an exception leaves the try and the with: it is logged and raised again
load_models_raise(t, msg) ==
    /\ loaded' = [loaded EXCEPT ![t] = LoadRaised(msg)]
    /\ init_lock' = None
    /\ lpc' = [lpc EXCEPT ![t] = "idle"]

\* the import of acestep.handler and _get_device, then
\* `_dit_handler = AceStepHandler()`; ok says whether the import works
load_models_construct(t, ok) ==
    /\ lpc[t] = "construct"
    /\ made < MaxLoads
    /\ IF ok
       THEN /\ made' = made + 1
            /\ dit_handler' = Some(made + 1)
            /\ lpc' = [lpc EXCEPT ![t] = "initialize_service"]
            /\ UNCHANGED <<loaded, init_lock>>
       ELSE /\ load_models_raise(t, "ImportError")
            /\ UNCHANGED <<made, dit_handler>>
    /\ UNCHANGED <<initialized, llm_handler, served, sysVars, reqVars, lastPoll,
                   fileVars, trainVars, adapter, handler_lora>>

\* `status_msg, success = _dit_handler.initialize_service(...)`
load_models_initialize_service(t, success) ==
    /\ lpc[t] = "initialize_service"
    /\ IF success
       THEN /\ served' = served \cup {dit_handler.v}
            /\ lpc' = [lpc EXCEPT ![t] = "llm"]
            /\ UNCHANGED <<loaded, init_lock>>
       ELSE /\ load_models_raise(t, "Model init failed")
            /\ UNCHANGED served
    /\ UNCHANGED <<initialized, dit_handler, llm_handler, made, sysVars, reqVars,
                   lastPoll, fileVars, trainVars, adapter, handler_lora>>

\* what lines 67-81 meet after the service is up: the memory report or reading
\* settings.ACESTEP_INIT_LLM "raises"; the LLM is switched "off"; LLMHandler()
\* is built ("llm"); building it fails and is logged ("unavailable")
LlmOutcomes == {"raises", "off", "llm", "unavailable"}

\* the memory report, `_llm_handler = None` and the optional LLMHandler()
load_models_llm(t, outcome) ==
    /\ lpc[t] = "llm"
    /\ IF outcome = "raises"
       THEN /\ load_models_raise(t, "Exception")
            /\ UNCHANGED llm_handler
       ELSE /\ llm_handler' = IF outcome = "llm" THEN Some(dit_handler.v) ELSE None
            /\ lpc' = [lpc EXCEPT ![t] = "initialized"]
            /\ UNCHANGED <<loaded, init_lock>>
    /\ UNCHANGED <<initialized, dit_handler, made, served, sysVars, reqVars,
                   lastPoll, fileVars, trainVars, adapter, handler_lora>>

\* `_initialized = True` and `return _dit_handler, _llm_handler`, leaving the with
load_models_initialized(t) ==
    /\ lpc[t] = "initialized"
    /\ initialized' = TRUE
    /\ loaded' = [loaded EXCEPT ![t] = LoadPair(dit_handler, llm_handler)]
    /\ init_lock' = None
    /\ lpc' = [lpc EXCEPT ![t] = "idle"]
    /\ UNCHANGED <<dit_handler, llm_handler, made, served, sysVars, reqVars,
                   lastPoll, fileVars, trainVars, adapter, handler_lora>>

\* the threads of one process, each calling load_models again and again
NextLoad ==
    \/ \E t \in Callers : load_models_call(t)
    \/ \E t \in Callers : load_models_check(t)
    \/ \E t \in Callers : load_models_return(t)
    \/ \E t \in Callers : load_models_acquire(t)
    \/ \E t \in Callers : load_models_locked(t)
    \/ \E t \in Callers : \E ok \in BOOLEAN : load_models_construct(t, ok)
    \/ \E t \in Callers : \E success \in BOOLEAN :
            load_models_initialize_service(t, success)
    \/ \E t \in Callers : \E o \in LlmOutcomes : load_models_llm(t, o)
    \/ \E t \in Callers : load_models_initialized(t)

-----------------------------------------------------------------------------
(* Specifications *)

Init ==
    /\ body = EmptyBody
    /\ verdict = "new"
    /\ dumped = NoDump
    /\ issued = {}
    /\ sent = <<>>
    /\ queue = {}
    /\ unacked = {}
    /\ backend = [i \in TaskIds |-> PendingRec]
    /\ pc = [i \in TaskIds |-> "idle"]
    /\ runs = [i \in TaskIds |-> 0]
    /\ redelivered = [i \in TaskIds |-> 0]
    /\ returned = [i \in TaskIds |-> "none"]
    /\ response = None
    /\ lastPoll = None
    /\ output_dir = [n \in EntryNames \cup JobFiles |-> "absent"]
    /\ fileResponse = None
    /\ scratch = {}
    /\ lora_models = {"style", "broken"}
    /\ trainResponse = None
    /\ adapter = [i \in TaskIds |-> "unset"]
    /\ handler_lora = "none"
    /\ initialized = FALSE
    /\ dit_handler = None
    /\ llm_handler = None
    /\ init_lock = None
    /\ lpc = [t \in Callers |-> "idle"]
    /\ loaded = [t \in Callers |-> NotCalled]
    /\ made = 0
    /\ served = {}

Next ==
    \/ \E b \in SampleBodies : generate_rejected(b)
    \/ \E b \in SampleBodies : generate(b)
    \/ \E i \in TaskIds : Poll(i)
    \/ \E m \in queue : Reserve(m)
    \/ \E m \in unacked : update_state(m, "started", "loading", "loading_model")
    \/ \E m \in unacked : update_state(m, "loading", "generating", "generating")
    \/ \E m \in unacked : generate_track_success(m)
    \/ \E m \in unacked : \E e \in GenErrors : generate_track_failed(m, e)
    \/ \E m \in unacked : Ack(m)
    \/ \E m \in unacked : WorkerLost(m)
    \/ \E m \in unacked : Redeliver(m)
    \/ \E i \in TaskIds : Expire(i)

Spec == Init /\ [][Next]_vars

\* submission and execution alone: no GET /status, no expiry of results
NextQueue ==
    \/ \E b \in SampleBodies : generate_rejected(b)
    \/ \E b \in SampleBodies : generate(b)
    \/ \E m \in queue : Reserve(m)
    \/ \E m \in unacked : update_state(m, "started", "loading", "loading_model")
    \/ \E m \in unacked : update_state(m, "loading", "generating", "generating")
    \/ \E m \in unacked : generate_track_success(m)
    \/ \E m \in unacked : \E e \in GenErrors : generate_track_failed(m, e)
    \/ \E m \in unacked : Ack(m)
    \/ \E m \in unacked : WorkerLost(m)
    \/ \E m \in unacked : Redeliver(m)

SpecQueue == Init /\ [][NextQueue]_vars

\* the status translation alone, over every record the backend can hold
NextStatus ==
    \/ \E r \in BackendRecords : BackendReports(r)
    \/ Poll(ProbeId)

SpecStatus == Init /\ [][NextStatus]_vars

NextRequest ==
    \/ \E f \in Fields : \E v \in Candidates(f) : ClientSet(f, v)
    \/ ClientReset
    \/ Construct

SpecRequest == Init /\ [][NextRequest]_vars

\* the file resolver alone, over every filename and every output directory
NextFiles ==
    \/ \E n \in EntryNames : \E k \in EntryKinds : OutputDirChanges(n, k)
    \/ \E f \in Filenames : GetFile(f)

SpecFiles == Init /\ [][NextFiles]_vars

\* training intake and the training task, for clients that upload the next
\* archive when the job of the last one has left the queue
NextTrain ==
    \/ \E u \in TrainUploads : queue = {} /\ unacked = {} /\ train_lora(u)
    \/ \E m \in queue : Reserve(m)
    \/ \E m \in unacked : update_state(m, "started", "loading", "loading_model")
    \/ \E m \in unacked : train_lora_task_preprocess(m)
    \/ \E m \in unacked : train_lora_task_train(m)
    \/ \E m \in unacked : \E s \in {"loading", "preprocessing", "training"} :
            \E p \in TrainPayloads(m, s) : train_lora_task_return(m, p)
    \/ \E m \in unacked : Ack(m)

SpecTrain == Init /\ [][NextTrain]_vars

\* jobs of both kinds, submitted one after the other, with adapters and formats
WithField(f, v) == [EmptyBody EXCEPT !["prompt"] = StrV("p"), ![f] = v]
TaskBodies ==
    {WithField("lora_id", StrV(x)) : x \in {"style", "ghost", "broken"}}
    \cup {WithField("audio_format", StrV(x)) : x \in {"wav", "mp3"}}
TaskUploads ==
    {Upload(ZipName, "none", AudioMembers(MIN_LORA_FILES, l)) : l \in {"flat", "deep"}}

Quiet == queue = {} /\ unacked = {}

NextTasks ==
    \/ \E b \in TaskBodies : Quiet /\ generate(b)
    \/ \E u \in TaskUploads : Quiet /\ train_lora(u)
    \/ \E m \in queue : Reserve(m)
    \/ \E m \in unacked : update_state(m, "started", "loading", "loading_model")
    \/ \E m \in unacked :
            ~IsTrain(m) /\ update_state(m, "loading", "generating", "generating")
    \/ \E m \in unacked : ~IsTrain(m) /\ generate_track_success(m)
    \/ \E m \in unacked : \E e \in GenErrors :
            ~IsTrain(m) /\ generate_track_failed(m, e)
    \/ \E m \in unacked : train_lora_task_preprocess(m)
    \/ \E m \in unacked : train_lora_task_train(m)
    \/ \E m \in {x \in unacked : IsTrain(x)} :
            \E s \in {"loading", "preprocessing", "training"} :
                \E p \in TrainPayloads(m, s) : train_lora_task_return(m, p)
    \/ \E m \in unacked : Ack(m)
    \/ \E m \in unacked : WorkerLost(m)
    \/ \E m \in unacked : Redeliver(m)

SpecTasks == Init /\ [][NextTasks]_vars

-----------------------------------------------------------------------------
(* Submission while the broker is unreachable: apply_async raises *)

\* POST /generate when apply_async raises: the handler has no try, the
\* framework answers 500 and the id the handler drew is dropped with it
generate_unreachable(b) ==
    /\ Validate(b)
    /\ response' = Some(GenerationResponse(b, 500, None, None))
    /\ UNCHANGED <<issued, sent, queue, unacked, backend, pc, runs, redelivered,
                   returned, reqVars, lastPoll, fileVars, trainVars, adapter,
                   handler_lora, loadVars>>

\* except Exception of train_lora that answers 500 and keeps tmp_dir
train_lora_except_kept(o) ==
    TrainOutcome(500, Detail("Internal server error"), FALSE, TRUE, FALSE,
                 o.extracted, o.audio_files)

\* except Exception of train_lora, entered from apply_async after the upload
\* got outcome o: shutil.rmtree(tmp_dir), then HTTPException(500)
train_lora_except(o) ==
    TrainOutcome(500, Detail("Internal server error"), FALSE, TRUE, TRUE,
                 o.extracted, o.audio_files)

\* POST /train/lora when apply_async raises
train_lora_unreachable(upload) ==
    \E tmp_dir \in {mkdtemp(scratch)} :
    \E o \in {train_lora_outcome(upload, tmp_dir)} :
    \E e \in {train_lora_except(o)} :
        /\ o.enqueue
        /\ scratch' = IF e.created /\ ~e.removed THEN scratch \cup {tmp_dir}
                      ELSE scratch
        /\ trainResponse' = Some(LoraTrainResponse(upload, tmp_dir, e, None, None))
        /\ UNCHANGED <<issued, sent, queue, unacked, backend, pc, runs,
                       redelivered, returned, response, reqVars, lastPoll,
                       fileVars, lora_models, adapter, handler_lora, loadVars>>

\* uploads posted while the broker comes and goes
BrokerUploads ==
    TaskUploads
    \cup {Upload(ZipName, "none", AudioMembers(n, "flat")) :
            n \in {MIN_LORA_FILES - 1, MAX_LORA_FILES}}

\* both submissions with the broker reachable or not, one job at a time, and
\* the workers
NextBroker ==
    \/ \E b \in SampleBodies : generate_rejected(b)
    \/ \E b \in SampleBodies : Quiet /\ generate(b)
    \/ \E b \in SampleBodies : Quiet /\ generate_unreachable(b)
    \/ \E u \in BrokerUploads : Quiet /\ train_lora(u)
    \/ \E u \in BrokerUploads : Quiet /\ train_lora_unreachable(u)
    \/ \E m \in queue : Reserve(m)
    \/ \E m \in unacked : update_state(m, "started", "loading", "loading_model")
    \/ \E m \in unacked :
            ~IsTrain(m) /\ update_state(m, "loading", "generating", "generating")
    \/ \E m \in unacked : ~IsTrain(m) /\ generate_track_success(m)
    \/ \E m \in unacked : train_lora_task_preprocess(m)
    \/ \E m \in unacked : train_lora_task_train(m)
    \/ \E m \in {x \in unacked : IsTrain(x)} :
            \E s \in {"loading", "preprocessing", "training"} :
                \E p \in TrainPayloads(m, s) : train_lora_task_return(m, p)
    \/ \E m \in unacked : Ack(m)

SpecBroker == Init /\ [][NextBroker]_vars

SpecLoad == Init /\ [][NextLoad]_vars

-----------------------------------------------------------------------------
(* Style names and adapter paths *)

\* settings.LORA_DIR, resolved in the worker's working directory
LoraRoot == <<"srv", "lora_models">>

\* style names and lora ids clients send
StyleNames == {"a", "./a", "../e", "/e"}

\* the components of a name, split at the separator
NameParts(name) ==
    CASE name = "./a"  -> [abs |-> FALSE, dirs |-> <<".", "a">>]
      [] name = "../e" -> [abs |-> FALSE, dirs |-> <<"..", "e">>]
      [] name = "/e"   -> [abs |-> TRUE, dirs |-> <<"e">>]
      [] OTHER         -> [abs |-> FALSE, dirs |-> <<name>>]

\* os.path.join(settings.LORA_DIR, name) as the file system resolves it: an
\* absolute name replaces the directory, "." and ".." are followed
lora_join(name) ==
    LET n == NameParts(name)
    IN  IF n.abs THEN Normalize(n.dirs, <<>>)
        ELSE Normalize(LoraRoot \o n.dirs, <<>>)

\* an archive of five audio files sent under the style name `name`
NamedUpload(name) ==
    [Upload(ZipName, "none", AudioMembers(MIN_LORA_FILES, "flat"))
        EXCEPT !.style_name = name]

\* trainings under every style name, running side by side, and generation
\* jobs that name one of them
NextStyles ==
    \/ \E n \in StyleNames : train_lora_within(NamedUpload(n), MaxJobs)
    \/ generate(WithField("lora_id", StrV("../e")))
    \/ \E m \in queue : Reserve(m)
    \/ \E m \in unacked : update_state(m, "started", "loading", "loading_model")
    \/ \E m \in unacked :
            ~IsTrain(m) /\ update_state(m, "loading", "generating", "generating")
    \/ \E m \in unacked : ~IsTrain(m) /\ generate_track_success(m)
    \/ \E m \in unacked : train_lora_task_preprocess(m)
    \/ \E m \in unacked : train_lora_task_train(m)
    \/ \E m \in {x \in unacked : IsTrain(x)} :
            \E s \in {"loading", "preprocessing", "training"} :
                \E p \in TrainPayloads(m, s) : train_lora_task_return(m, p)
    \/ \E m \in unacked : Ack(m)

SpecStyles == Init /\ [][NextStyles]_vars

-----------------------------------------------------------------------------
(* From submission to download *)

\* the client asks for the file its latest poll points to: GET {file_url}
Download ==
    /\ lastPoll.some
    /\ lastPoll.v.file_url.some
    /\ StartsWith(lastPoll.v.file_url.v, <<"/", "files", "/">>)
    /\ GetFile(SubSeq(lastPoll.v.file_url.v, 4, Len(lastPoll.v.file_url.v)))

\* generation jobs one after the other, polled and downloaded, while stored
\* files are removed from the output directory
NextDownload ==
    \/ \E f \in {"wav", "mp3"} :
            Quiet /\ generate(WithField("audio_format", StrV(f)))
    \/ \E m \in queue : Reserve(m)
    \/ \E m \in unacked : update_state(m, "started", "loading", "loading_model")
    \/ \E m \in unacked : update_state(m, "loading", "generating", "generating")
    \/ \E m \in unacked : generate_track_success(m)
    \/ \E m \in unacked : generate_track_failed(m, "Generation failed")
    \/ \E m \in unacked : Ack(m)
    \/ \E i \in TaskIds : Poll(i)
    \/ Download
    \/ \E n \in JobFiles : OutputDirChanges(n, "absent")

SpecDownload == Init /\ [][NextDownload]_vars

-----------------------------------------------------------------------------
(* Claims *)

Vocabulary == {"pending", "processing", "success", "failed"}
Terminal == {"success", "failed"}

Count(log, i) == Cardinality({k \in 1..Len(log) : log[k].task_id = i})

\* lo <= v <= hi for a supplied number v; TRUE for a field left out or null
Within(v, lo, hi) == v.kind \in {"int", "float"} => (LeV(lo, v) /\ LeV(v, hi))

\* C1: every status GET /status returns is one of pending, processing, success,
\* failed, whatever state the backend reports for the job.
C1_StatusInVocabulary ==
    lastPoll.some => lastPoll.v.status \in Vocabulary

\* u is "/files/" followed by the last component of path p
IsFilesUrlOf(u, p) ==
    /\ Len(u) >= 3
    /\ u[1] = "/" /\ u[2] = "files" /\ u[3] = "/"
    /\ LET n == Len(u) - 3
       IN  /\ n <= Len(p)
           /\ \A k \in 1..n : u[3 + k] # "/" /\ u[3 + k] = p[Len(p) - n + k]
           /\ n = Len(p) \/ p[Len(p) - n] = "/"

\* C2: the response of GET /status follows the translation table: PENDING gives
\* pending, PROGRESS gives processing, SUCCESS with {status: success, file_path: p}
\* gives success with file_url "/files/" + basename(p), SUCCESS with
\* {status: failed, error: e} gives failed with error e, FAILURE with exception x
\* gives failed with error str(x); task_id is the requested id.
C2_TranslationTable ==
    lastPoll.some =>
        LET r == backend[ProbeId]
            a == lastPoll.v
        IN  /\ a.task_id = ProbeId
            /\ r.state = "PENDING" =>
                  a.status = "pending" /\ a.file_url = None /\ a.error = None
            /\ r.state = "PROGRESS" =>
                  a.status = "processing" /\ a.file_url = None /\ a.error = None
            /\ (r.state = "SUCCESS" /\ r.result.type = "dict") =>
                  /\ DOMAIN r.result.value = {"status", "file_path"} =>
                        /\ a.status = "success"
                        /\ a.error = None
                        /\ a.file_url.some
                        /\ IsFilesUrlOf(a.file_url.v, r.result.value.file_path)
                  /\ DOMAIN r.result.value = {"status", "error"} =>
                        /\ a.status = "failed"
                        /\ a.file_url = None
                        /\ a.error = Some(r.result.value.error)
            /\ r.state = "FAILURE" =>
                  /\ a.status = "failed"
                  /\ a.file_url = None
                  /\ a.error = Some(r.result.msg)

\* C2 witness: a SUCCESS payload whose file_path has a directory part was polled
C2_Witness ==
    /\ lastPoll.some
    /\ backend[ProbeId].state = "SUCCESS"
    /\ backend[ProbeId].result.type = "dict"
    /\ DOMAIN backend[ProbeId].result.value = {"status", "file_path"}
    /\ backend[ProbeId].result.value.file_path = <<"/", "x", "/", "abc.wav">>
    /\ lastPoll.v.file_url = Some(<<"/", "files", "/", "abc.wav">>)

\* C3: once a poll of a task id returned success or failed, every later poll of
\* that id returns the same status, file_url and error.
C3_TerminalPollStable ==
    [][(/\ lastPoll.some
        /\ lastPoll.v.status \in Terminal
        /\ lastPoll'.some
        /\ lastPoll'.v.task_id = lastPoll.v.task_id)
       => lastPoll' = lastPoll]_vars

Rank(status) ==
    CASE status = "pending" -> 0
      [] status = "started" -> 1
      [] status = "processing" -> 2
      [] OTHER -> 3

\* C4: the task reports PROGRESS before it returns its terminal payload, and the
\* statuses successive polls of one task id see never move backwards.
C4_LifecycleOrdered ==
    [][/\ \A i \in TaskIds :
            returned'[i] # returned[i] => pc[i] = "generating"
       /\ (/\ lastPoll.some
           /\ lastPoll'.some
           /\ lastPoll'.v.task_id = lastPoll.v.task_id)
          => Rank(lastPoll'.v.status) >= Rank(lastPoll.v.status)]_vars

\* C5 as stated: after a job's task ended in the failed outcome, the job is not
\* enqueued again and its task body is not started again.
C5_FailedNeverRunsAgain ==
    [][\A i \in TaskIds :
          returned[i] = "failed" =>
              /\ runs'[i] = runs[i]
              /\ Count(sent', i) = Count(sent, i)]_vars

\* C5 amended: apply_async is called exactly once per generated task id, the
\* task never asks for a retry, and every start of a task body beyond the first
\* answers to a broker redelivery of its late-acknowledged message.
C5_NoResubmission ==
    \A i \in TaskIds :
        /\ Count(sent, i) = (IF i \in issued THEN 1 ELSE 0)
        /\ backend[i].state # "RETRY"
        /\ runs[i] <= Count(sent, i) + redelivered[i]

\* C5 witness: a job whose task returned the failed payload and was acknowledged
C5_Witness ==
    \E i \in TaskIds :
        /\ returned[i] = "failed"
        /\ pc[i] = "idle"
        /\ runs[i] = 1
        /\ \A m \in queue \cup unacked : m.task_id # i

\* C6: every accepted POST /generate enqueues exactly one generate_track message
\* whose queue id and first argument both equal the task_id of the response; the
\* response is {task_id, "pending"} and is given before any worker acted on the
\* job; the result stored under that id is the result of that job.
C6_SubmitOnce ==
    /\ [](/\ response.some /\ response.v.code = 200 =>
               /\ response.v.status = Some("pending")
               /\ response.v.task_id.some
               /\ Count(sent, response.v.task_id.v) = 1
          /\ \A i \in issued :
               \A k \in 1..Len(sent) :
                  (sent[k].task_id = i \/ sent[k].args.task_id = i) =>
                      /\ sent[k].task_id = i
                      /\ sent[k].args.task_id = i
                      /\ sent[k].name = "tasks.generate_track"
          /\ \A i \in TaskIds :
               (backend[i].state = "SUCCESS" /\ backend[i].result.type = "dict") =>
                   backend[i].result.value.task_id = i)
    /\ [][(response' # response /\ response'.v.code = 200) =>
             LET i == response'.v.task_id.v
             IN  /\ runs'[i] = 0
                 /\ pc'[i] = "idle"
                 /\ backend'[i] = PendingRec
                 /\ \E m \in queue' : m.task_id = i]_vars

\* C6 witness: the job of the latest accepted POST ran and stored its payload
C6_Witness ==
    /\ response.some
    /\ response.v.code = 200
    /\ backend[response.v.task_id.v].state = "SUCCESS"
    /\ Len(sent) = 2

\* the body misses prompt or carries a duration outside 10..600
BodyInvalid(b) ==
    \/ b["prompt"].kind # "str"
    \/ ~Within(b["duration"], IntV(10), IntV(600))

\* C7: a POST /generate whose body fails validation gets a 4xx response; no task
\* id is generated, nothing is enqueued and the queue is unchanged.
C7_RejectedNotEnqueued ==
    /\ [](response.some /\ BodyInvalid(response.v.body) =>
             /\ response.v.code \in 400..499
             /\ response.v.task_id = None
             /\ response.v.status = None)
    /\ [][(response' # response /\ BodyInvalid(response'.v.body)) =>
             /\ issued' = issued
             /\ sent' = sent
             /\ queue' = queue]_vars

\* C7 witness: a body without prompt was rejected while a message was waiting
C7_Witness ==
    /\ response.some
    /\ response.v.code = 422
    /\ response.v.body = EmptyBody
    /\ queue # {}

IntFieldsInRange(b) ==
    /\ Within(b["duration"], IntV(10), IntV(600))
    /\ Within(b["batch_size"], IntV(1), IntV(8))
    /\ Within(b["bpm"], IntV(40), IntV(300))
    /\ Within(b["num_steps"], IntV(1), IntV(100))
    /\ Within(b["seed"], IntV(-1), IntV(2147483647))
    /\ Within(b["lm_top_k"], IntV(1), IntV(500))
    /\ Within(b["lm_max_tokens"], IntV(64), IntV(4096))

CfgIntervalInRange(b) ==
    /\ Within(b["cfg_interval_start"], FloatV(0), FloatV(10))
    /\ Within(b["cfg_interval_end"], FloatV(0), FloatV(10))

RepaintingInRange(b) ==
    /\ Within(b["repainting_start"], FloatV(0), FloatV(6000))
    /\ Within(b["repainting_end"], FloatV(-10), FloatV(6000))

\* prompt is a string and duration, which is not nullable, is not null
Wellformed(b) == b["prompt"].kind = "str" /\ b["duration"].kind # "null"

\* C8: with the other fields valid, a request is accepted exactly when each
\* supplied integer field lies in its inclusive range: duration 10..600,
\* batch_size 1..8, bpm 40..300, num_steps 1..100, seed -1..2^31-1,
\* lm_top_k 1..500, lm_max_tokens 64..4096.
C8_IntegerRanges ==
    (verdict # "new" /\ Wellformed(body) /\ CfgIntervalInRange(body)
        /\ RepaintingInRange(body)) =>
        (verdict = "accepted" <=> IntFieldsInRange(body))

\* C8 witness: both bounds of seed and duration were offered and accepted
C8_Witness ==
    /\ verdict = "accepted"
    /\ body["seed"] = IntV(2147483647)
    /\ body["duration"] = IntV(10)

\* C9 as stated: an accepted repainting_end is -1 or non-negative, and an
\* accepted repainting_start is non-negative.
C9_SentinelOnly ==
    verdict = "accepted" =>
        /\ body["repainting_end"].kind = "float" =>
              \/ body["repainting_end"] = FloatV(-10)
              \/ LeV(FloatV(0), body["repainting_end"])
        /\ body["repainting_start"].kind = "float" =>
              LeV(FloatV(0), body["repainting_start"])

\* C9 amended: with the other fields valid, a request is accepted exactly when
\* repainting_end, if supplied, lies in [-1.0, 600.0] (so -0.5 is accepted) and
\* repainting_start, if supplied, lies in [0.0, 600.0].
C9_RepaintingRanges ==
    (verdict # "new" /\ Wellformed(body) /\ CfgIntervalInRange(body)
        /\ IntFieldsInRange(body)) =>
        (verdict = "accepted" <=> RepaintingInRange(body))

\* C9 witness: repainting_end = -0.5 was accepted
C9_Witness ==
    /\ verdict = "accepted"
    /\ body["repainting_end"] = FloatV(-5)

\* C10: the mapping generate enqueues holds no field the client did not set.
C10_UnsetOmitted ==
    verdict = "accepted" => DOMAIN dumped \subseteq Supplied(body)

\* the filename has no directory part
OwnBasename(f) == \A i \in 1..Len(f) : f[i] # "/"

\* the filename contains the parent-relative sequence ".."
Traversal(f) == \E i \in 1..Len(f) : \E j \in 1..Len(f) :
                    j = i + 1 /\ f[i] = "." /\ f[j] = "."

\* what the entry called f in the output directory is
EntryOf(f) == IF f \in DOMAIN output_dir THEN output_dir[f] ELSE "absent"

\* q lies strictly below the directory root
StrictDescendant(q, root) ==
    /\ Len(q) > Len(root) + 1
    /\ SubSeq(q, 1, Len(root)) = root
    /\ q[Len(root) + 1] = "/"

\* the entry called f leads out of the output root: f is the root itself, or
\* a symbolic link whose target is no strict descendant of the root
LeavesRoot(f) ==
    \/ f = <<".">>
    \/ EntryOf(f) = "outside" /\ ~StrictDescendant(OutsideFile, OutputRoot)
    \/ EntryOf(f) = "sibling" /\ ~StrictDescendant(SiblingFile, OutputRoot)

\* C11 as stated: the response is 200, 403 or 404; a filename equal to its
\* basename, without traversal sequence, naming a file in the output root gets
\* 200; a filename with a traversal sequence gets 403; a filename equal to its
\* basename, without traversal sequence, naming no existing file gets 404.
C11_ThreeOutcomes ==
    fileResponse.some =>
        LET f == fileResponse.v.filename
            code == fileResponse.v.code
        IN  /\ code \in {200, 403, 404}
            /\ (OwnBasename(f) /\ ~Traversal(f) /\ EntryOf(f) = "file") => code = 200
            /\ Traversal(f) => code = 403
            /\ (OwnBasename(f) /\ ~Traversal(f)
                   /\ EntryOf(f) \notin {"file", "outside", "sibling"}) => code = 404

\* C11 amended: the response is 200 exactly for a filename equal to its
\* basename, without "..", naming a regular file of the output root; 403 exactly
\* for a filename that differs from its basename, contains "..", or resolves to
\* a path that is no strict descendant of the output root (the name ".", a
\* symbolic link leaving the root); 404 in every other case.
C11_Outcomes ==
    fileResponse.some =>
        LET f == fileResponse.v.filename
            code == fileResponse.v.code
            forbidden == ~OwnBasename(f) \/ Traversal(f) \/ LeavesRoot(f)
        IN  /\ code \in {200, 403, 404}
            /\ code = 403 <=> forbidden
            /\ code = 200 <=> (~forbidden /\ EntryOf(f) = "file")

\* C11 witness: the filename "." was answered 403 and an existing file 200 is
\* possible in the same directory
C11_Witness ==
    /\ fileResponse.some
    /\ fileResponse.v.filename = <<".">>
    /\ fileResponse.v.code = 403
    /\ output_dir[<<"a">>] = "file"

\* C12: a file is served only from a canonical path that is a strict descendant
\* of the output root, and a filename that differs from its basename or
\* contains ".." is answered 403 without the filesystem being consulted.
C12_StrictDescendant ==
    fileResponse.some =>
        LET f == fileResponse.v.filename
        IN  /\ fileResponse.v.code = 200 =>
                  /\ fileResponse.v.path.some
                  /\ StrictDescendant(fileResponse.v.path.v, OutputRoot)
                  /\ fileResponse.v.path.v =
                        (CASE EntryOf(f) = "outside" -> OutsideFile
                           [] EntryOf(f) = "sibling" -> SiblingFile
                           [] OTHER -> OutputRoot \o <<"/">> \o f)
            /\ (~OwnBasename(f) \/ Traversal(f)) =>
                  /\ fileResponse.v.code = 403
                  /\ ~fileResponse.v.accessed

\* C12 witness: a symbolic link to a file of the neighbouring directory /oa
\* was asked for and refused after canonicalization
C12_Witness ==
    /\ fileResponse.some
    /\ fileResponse.v.filename = <<"a">>
    /\ output_dir[<<"a">>] = "sibling"
    /\ fileResponse.v.code = 403
    /\ fileResponse.v.accessed

\* the spellings of the five audio extensions, in any case, among the samples
AudioSpellings ==
    {".mp3", ".wav", ".flac", ".ogg", ".opus", ".WAV", ".Ogg", ".Mp3"}

\* number of members of the upload that are audio files
AudioCount(u) ==
    Cardinality({i \in 1..Len(u.namelist) : u.namelist[i].ext \in AudioSpellings})

\* the upload has a member that points out of the scratch directory
HasEscape(u) == \E i \in 1..Len(u.namelist) : u.namelist[i] \in EvilMembers

\* the upload is named *.zip, is a readable archive and has no escaping member
Countable(u) ==
    /\ u.filename.ext \in {".zip", ".ZIP"}
    /\ u.fault = "none"
    /\ ~HasEscape(u)

\* C13: an upload whose files get counted is accepted, and a tasks.train_lora
\* job enqueued under the returned id, exactly when 5 <= n <= 10 for the number
\* n of its audio files; n < 5 gets 400 "Need at least", n > 10 gets 400
\* "Maximum"; nothing is enqueued for a request that is not answered 200.
C13_CardinalityWindow ==
    /\ [](trainResponse.some /\ Countable(trainResponse.v.upload) =>
            LET a == trainResponse.v
                n == AudioCount(a.upload)
            IN  /\ a.code = 200 <=> (5 <= n /\ n <= 10)
                /\ n < 5 => a.code = 400 /\ a.detail.text = "Need at least"
                /\ n > 10 => a.code = 400 /\ a.detail.text = "Maximum"
                /\ a.code = 200 =>
                      /\ a.task_id.some
                      /\ a.status = Some("pending")
                      /\ \E k \in 1..Len(sent) :
                            /\ sent[k].task_id = a.task_id.v
                            /\ sent[k].name = "tasks.train_lora"
                            /\ Len(sent[k].args.audio_files_paths) = n)
    /\ [][sent' # sent =>
             /\ trainResponse'.v.code = 200
             /\ Len(sent') = Len(sent) + 1
             /\ queue' = queue \cup {sent'[Len(sent')]}]_vars

\* C13 witness: an archive of 10 audio files and other members was accepted
C13_Witness ==
    /\ trainResponse.some
    /\ trainResponse.v.code = 200
    /\ AudioCount(trainResponse.v.upload) = 10
    /\ Len(trainResponse.v.upload.namelist) > 10
    /\ queue # {}

\* C14: an upload with a member that resolves outside the scratch directory is
\* answered 400 with no member extracted and no job enqueued, wherever the
\* member stands in the archive; every file ever extracted lies in the scratch
\* directory of its request.
C14_ZipSlip ==
    trainResponse.some =>
        LET a == trainResponse.v
        IN  /\ (a.upload.filename.ext \in {".zip", ".ZIP"} /\ a.upload.fault = "none"
                  /\ HasEscape(a.upload)) =>
                  /\ a.code = 400
                  /\ a.detail.text = "Invalid archive: path traversal detected"
                  /\ a.extracted = <<>>
                  /\ a.task_id = None
            /\ \A i \in 1..Len(a.extracted) :
                  /\ Len(a.extracted[i].dirs) >= 2
                  /\ SubSeq(a.extracted[i].dirs, 1, 2) = a.tmp_dir
                  /\ \A k \in 1..Len(a.extracted[i].dirs) :
                        a.extracted[i].dirs[k] # ".."

\* C14 witness: the escaping member came last, after five harmless members
C14_Witness ==
    /\ trainResponse.some
    /\ trainResponse.v.code = 400
    /\ Len(trainResponse.v.upload.namelist) = 6
    /\ trainResponse.v.upload.namelist[6] \in EvilMembers
    /\ trainResponse.v.upload.namelist[1] \notin EvilMembers

\* the scratch directory the paths of a training message lie in
ScratchOf(m) == SubSeq(m.args.audio_files_paths[1].dirs, 1, 2)

\* C15: after a POST /train/lora that was not accepted its scratch directory
\* does not exist, and after the training task of an accepted upload has
\* returned (success or failed) the scratch directory of that upload does not
\* exist.
C15_ScratchRemoved ==
    /\ (trainResponse.some /\ trainResponse.v.code # 200) =>
          trainResponse.v.tmp_dir \notin scratch
    /\ \A k \in 1..Len(sent) :
          (sent[k].name = "tasks.train_lora"
              /\ returned[sent[k].task_id] \in {"success", "failed"}) =>
              ScratchOf(sent[k]) \notin scratch

\* C16: the list _extract_audio_from_zip returns holds exactly the extracted
\* files whose extension is one of the five audio extensions in any spelling
\* of case, each once, whatever directory they lie in; members with another
\* extension or none are not in it.
C16_AudioOnly ==
    (trainResponse.some /\ Countable(trainResponse.v.upload)) =>
        LET a == trainResponse.v
            got == {a.collected[i] : i \in 1..Len(a.collected)}
            all == {a.extracted[i] : i \in 1..Len(a.extracted)}
        IN  /\ got = {f \in all : f.ext \in AudioSpellings}
            /\ Cardinality(got) = Len(a.collected)
            /\ Len(a.extracted) = Len(a.upload.namelist)
            /\ Len(a.collected) = AudioCount(a.upload)

\* C16 witness: audio files two directories deep, one spelled .WAV, were
\* collected from an archive that also held .m4a, .aac and .wma members
C16_Witness ==
    /\ trainResponse.some
    /\ \E i \in 1..Len(trainResponse.v.collected) :
          /\ trainResponse.v.collected[i].ext = ".WAV"
          /\ Len(trainResponse.v.collected[i].dirs) = 4
    /\ \E i \in 1..Len(trainResponse.v.extracted) :
          trainResponse.v.extracted[i].ext = ".m4a"
    /\ Len(trainResponse.v.collected) = 5

\* the upload has a structural error: not named *.zip, not a zip archive, a
\* member escaping the scratch directory, or fewer than 5 or more than 10
\* audio files
Structural(u) ==
    \/ u.filename.ext \notin {".zip", ".ZIP"}
    \/ u.fault = "BadZipFile"
    \/ (u.fault = "none" /\ HasEscape(u))
    \/ (u.fault = "none" /\ (AudioCount(u) < 5 \/ AudioCount(u) > 10))

EndsFailed(i) ==
    /\ returned'[i] = "failed"
    /\ pc'[i] = "returned"
    /\ pc[i] # "returned"

\* every error message a task body reports
TaskErrors ==
    GenErrors \cup UNION {TrainErrors(s) : s \in {"loading", "preprocessing", "training"}}

GenerationJobs == {k \in 1..Len(sent) : sent[k].name = "tasks.generate_track"}

\* the lora_id of a generation message, "" if it names none
LoraIdOf(m) ==
    IF "lora_id" \in DOMAIN m.args.generation_params
    THEN m.args.generation_params["lora_id"].s
    ELSE ""

\* C19: a generation job whose lora_id names no adapter directory, or an
\* adapter that fails to load, runs without that adapter: when it succeeds the
\* named adapter was not in effect, and when it fails the error is one of the
\* errors of model loading and generation, not an error about the adapter.
C19_SoftLora ==
    \A k \in GenerationJobs :
        LET m == sent[k]
            i == m.task_id
        IN  (LoraIdOf(m) = "broken" \/ (LoraIdOf(m) = "ghost" /\ "ghost" \notin lora_models)) =>
                /\ returned[i] = "success" =>
                      adapter[i] # "unset" /\ adapter[i] # LoraIdOf(m)
                /\ (backend[i].state = "SUCCESS" /\ backend[i].result.type = "dict"
                        /\ backend[i].result.value.status = "failed") =>
                      backend[i].result.value.error \in GenErrors

\* C19 witness: a job naming a missing adapter and a job naming an adapter
\* that fails to load both ended in success
C19_Witness ==
    \E k \in GenerationJobs : \E l \in GenerationJobs :
        /\ LoraIdOf(sent[k]) = "ghost"
        /\ "ghost" \notin lora_models
        /\ LoraIdOf(sent[l]) = "broken"
        /\ \A n \in {k, l} :
              /\ returned[sent[n].task_id] = "success"
              /\ backend[sent[n].task_id].result.value.status = "success"
              /\ adapter[sent[n].task_id] = "none"

\* the audio_format a generation message asks for
FormatOf(m) ==
    IF "audio_format" \in DOMAIN m.args.generation_params
    THEN m.args.generation_params["audio_format"].s
    ELSE "wav"

\* C20: the file name in the success payload of a generation job is the job id
\* followed by "." and the audio_format the job asked for.
C20_FileNameFollowsFormat ==
    \A k \in GenerationJobs :
        LET m == sent[k]
            i == m.task_id
        IN  (backend[i].state = "SUCCESS" /\ backend[i].result.type = "dict"
                /\ backend[i].result.value.status = "success") =>
                backend[i].result.value.file_path = <<i, "." \o FormatOf(m)>>

\* C21: whenever a poll of a job answers success, the answer carries a
\* file_url "/files/" followed by a non-empty file name.
C21_SuccessHasFile ==
    \A i \in TaskIds :
        LET a == get_status(i, backend[i])
        IN  a.status = "success" =>
                /\ a.file_url.some
                /\ Len(a.file_url.v) > 3
                /\ SubSeq(a.file_url.v, 1, 3) = <<"/", "files", "/">>

\* the upload passes every check of the handler
Acceptable(u) ==
    /\ Countable(u)
    /\ AudioCount(u) >= 5
    /\ AudioCount(u) <= 10

\* C22: a submission that passes validation and yet enqueues nothing (the
\* broker was unreachable) is answered with a server error, carries no task id
\* and no status, leaves queue and backend alone, and for /train/lora leaves no
\* scratch directory behind.
C22_BrokerDownFailsLoudly ==
    /\ [][(response' # response /\ Validate(response'.v.body) /\ sent' = sent) =>
             /\ response'.v.code >= 500
             /\ response'.v.task_id = None
             /\ response'.v.status = None
             /\ queue' = queue
             /\ backend' = backend]_vars
    /\ [][(trainResponse' # trainResponse /\ Acceptable(trainResponse'.v.upload)
             /\ sent' = sent) =>
             /\ trainResponse'.v.code >= 500
             /\ trainResponse'.v.task_id = None
             /\ trainResponse'.v.status = None
             /\ trainResponse'.v.tmp_dir \notin scratch'
             /\ scratch' = scratch
             /\ queue' = queue
             /\ backend' = backend]_vars
    /\ [](response.some /\ response.v.code >= 500 => response.v.task_id = None)
    /\ [](trainResponse.some /\ trainResponse.v.code >= 500 =>
             trainResponse.v.task_id = None)

\* C22 witness: both submissions were answered 500 for requests that pass
\* every check, while an earlier job was enqueued
C22_Witness ==
    /\ response.some
    /\ Validate(response.v.body)
    /\ response.v.code = 500
    /\ trainResponse.some
    /\ Acceptable(trainResponse.v.upload)
    /\ trainResponse.v.code = 500
    /\ trainResponse.v.extracted # <<>>
    /\ trainResponse.v.tmp_dir \notin scratch
    /\ Len(sent) >= 1

\* the value the model holds for field f of body b: the supplied one or the default
Effective(b, f) == IF b[f].kind = "unset" THEN GenerationRequest[f].default ELSE b[f]

\* C23: every accepted request has cfg_interval_start strictly below
\* cfg_interval_end.
C23_IntervalOrdered ==
    (verdict = "accepted"
        /\ Effective(body, "cfg_interval_start").kind = "float"
        /\ Effective(body, "cfg_interval_end").kind = "float") =>
        Effective(body, "cfg_interval_start").tenths
            < Effective(body, "cfg_interval_end").tenths

\* the initialization of handler h ran to its end: the service came up and the
\* flag was set with h in place
Completed(h) == initialized /\ dit_handler = Some(h) /\ h \in served

TrainingNow ==
    {m \in unacked : IsTrain(m) /\ pc[m.task_id] \in {"preprocessing", "training"}}

\* C25: two trainings that run side by side write into the same destination
\* directory exactly when they were sent under the same style name.
C25_SameNameSameDirectory ==
    \A m \in TrainingNow : \A n \in TrainingNow :
        m # n =>
            (lora_join(m.args.style_name) = lora_join(n.args.style_name)
                <=> m.args.style_name = n.args.style_name)

\* the client downloads in this step what its poll of a successful job points to
Downloads(i) ==
    /\ lastPoll.some
    /\ lastPoll.v.task_id = i
    /\ lastPoll.v.status = "success"
    /\ fileResponse' # fileResponse
    /\ fileResponse'.some
    /\ output_dir' = output_dir

\* C26: when a client downloads the file_url of a generation job polled as
\* success, the answer is never 403; it is 200 with the file the job stored
\* under the name it returned, or 404 when that file is no longer there.
C26_SuccessDownloads ==
    [][\A i \in TaskIds :
          Downloads(i) =>
              LET written == backend[i].result.value.file_path
                  a == fileResponse'.v
              IN  /\ a.code # 403
                  /\ a.accessed
                  /\ a.filename = written
                  /\ IF EntryOf(written) = "file"
                     THEN /\ a.code = 200
                          /\ a.path = Some(OutputRoot \o <<"/">> \o written)
                     ELSE /\ a.code = 404
                          /\ EntryOf(written) = "absent"]_vars

\* C26 witness: the file of a job that asked for mp3 was downloaded with 200
\* after the file of an earlier job had been removed
C26_Witness ==
    \E i \in TaskIds : \E j \in TaskIds :
        /\ i # j
        /\ returned[i] = "success"
        /\ EntryOf(<<i, ".wav">>) = "absent"
        /\ lastPoll.some
        /\ lastPoll.v.task_id = j
        /\ lastPoll.v.status = "success"
        /\ \E k \in GenerationJobs : sent[k].task_id = j /\ FormatOf(sent[k]) = "mp3"
        /\ fileResponse.some
        /\ fileResponse.v.code = 200
        /\ fileResponse.v.filename = <<j, ".wav">>

\* C27: a generation job that names no adapter, or an adapter whose directory
\* does not exist, generates with no adapter in the worker's handler, whatever
\* jobs the worker ran before.
C27_NoAdapterLeaks ==
    [][\A m \in unacked :
          (/\ m.name = "tasks.generate_track"
           /\ pc[m.task_id] = "generating"
           /\ pc'[m.task_id] = "returned"
           /\ returned'[m.task_id] = "success"
           /\ LoraIdOf(m) \notin lora_models) =>
              /\ handler_lora' = "none"
              /\ adapter'[m.task_id] = "none"]_vars

\* p lies strictly below the directory root (both are component sequences)
Below(p, root) ==
    /\ Len(p) > Len(root)
    /\ SubSeq(p, 1, Len(root)) = root

\* the names whose adapter path a worker has read or written: the style name
\* of a training task past os.makedirs, the lora_id of a generation task past
\* os.path.exists
NamesUsed ==
    {sent[k].args.style_name : k \in {j \in 1..Len(sent) :
        /\ IsTrain(sent[j])
        /\ \/ pc[sent[j].task_id] \in {"preprocessing", "training"}
           \/ sent[j].args.style_name \in lora_models}}
    \cup {LoraIdOf(sent[k]) : k \in {j \in GenerationJobs :
        /\ LoraIdOf(sent[j]) # ""
        /\ \/ pc[sent[j].task_id] \in {"generating", "returned"}
           \/ returned[sent[j].task_id] # "none"}}

\* C28: every adapter path a worker reads or writes for an accepted style_name
\* or lora_id lies strictly below the adapter directory.
C28_AdapterPathContained ==
    \A name \in NamesUsed : Below(lora_join(name), LoraRoot)

\* the training jobs for style name `name` whose stored result is success
Trained(name) ==
    {k \in 1..Len(sent) :
        /\ IsTrain(sent[k])
        /\ sent[k].args.style_name = name
        /\ backend[sent[k].task_id].state = "SUCCESS"
        /\ backend[sent[k].task_id].result.type = "dict"
        /\ backend[sent[k].task_id].result.value.status = "success"}

\* C29: once a training job has ended, its adapter directory exists only if
\* a training job for that style name ended in success.
C29_DirectoryMeansTrained ==
    \A k \in 1..Len(sent) :
        (/\ IsTrain(sent[k])
         /\ pc[sent[k].task_id] \in {"returned", "idle"}
         /\ returned[sent[k].task_id] # "none"
         /\ sent[k].args.style_name \in lora_models) =>
            Trained(sent[k].args.style_name) # {}

\* C30: for an accepted request the generator gets the request's seed with
\* use_random_seed false when the seed lies in 0..2^31-1, and seed -1 with
\* use_random_seed true when the seed is -1, null or absent; the flag is true
\* exactly when the seed passed on is -1.
C30_SeedAndFlagAgree ==
    verdict = "accepted" =>
        LET s == Effective(body, "seed")
            g == build_generation_params(dumped)
        IN  /\ (s.kind = "int" /\ LeV(IntV(0), s)) =>
                  g.seed = s /\ ~g.use_random_seed
            /\ (s = Null \/ s = IntV(-1)) =>
                  g.seed = IntV(-1) /\ g.use_random_seed
            /\ g.use_random_seed <=> g.seed = IntV(-1)

====
